---- MODULE Spec2Model ----
(***************************************************************************)
(* Agentic RAG over DB2: the query-answering workflow graph of the two     *)
(* search services (deployment/search_api.py, search-api/search_api.py)    *)
(* and the sentence chunker of the ingestion services.                     *)
(*                                                                         *)
(* One search request is in flight: the workflow state is created per      *)
(* request and never shared.  Every call to the chat model, the grader,    *)
(* the retriever and the database is an input drawn from a small set,      *)
(* including the call raising.                                             *)
(***************************************************************************)
EXTENDS Integers, Sequences, FiniteSets, TLC

VARIABLES
    endpoint,        \* the service that serves the request
    question,        \* request.question / request.query
    table_state,     \* the DB2 table the request searches: absent, empty, populated
    pc,              \* position of the request handler
    messages,        \* MessagesState["messages"]: the transcript of the run
    node,            \* the node the graph engine runs next
    steps,           \* super-steps the graph engine has executed
    graph_error,     \* what ended graph.stream, if it raised
    score,           \* the binary_score the grader returned last
    scores_seen,     \* the binary_score values the grader returned in this run
    tool_failures,   \* retrieval calls of this run that failed
    context,         \* the context handed last to the grader or to generate_answer
    visited,         \* the nodes the graph engine executed, in order
    execution_path,  \* search_and_answer: execution_path
    sources_used,    \* search_and_answer: sources_used
    final_state,     \* search_and_answer: final_state (the last chunk streamed)
    final_answer,    \* search: final_answer
    fallback,        \* search: whether the fallback path ran, and how it ended
    response,        \* what the caller receives
    sentences,       \* chunker: word count of each input sentence, in order
    max_words,       \* chunker parameter
    overlap_words,   \* chunker parameter
    chunks,          \* chunker: chunks emitted, each a sequence of sentence indexes
    current_chunk,   \* chunker: sentences of the running chunk
    current_length,  \* chunker: word count of the running chunk
    i,               \* chunker: index of the next sentence (0-based, as in the code)
    cpc,             \* chunker: position in the function
    spc,             \* GraniteDB2Store: position of the constructor
    connection,      \* GraniteDB2Store.connection
    db2_available,   \* GraniteDB2Store.db2_available
    vectorstore,     \* GraniteDB2Store.vectorstore
    table_rows,      \* the texts in the DB2 table Documents_EUCLIDEAN
    simple_storage,  \* GraniteDB2Store.simple_storage
    agentic_workflow,\* combined_app: the global agentic_workflow
    data,            \* SimpleDB.data
    added,           \* the stores something has been added to
    call,            \* the last call on a store and what it returned
    ipc,             \* document ingestion: position of the /ingest request
    url_ok,          \* document ingestion: the request's url is a well-formed http url
    fetched,         \* document ingestion: the url has been fetched
    ingest_table,    \* document ingestion: the DB2 table named by the request
    stored,          \* document ingestion: chunks written to the table by the request
    ingest_response, \* document ingestion: what the caller receives
    tables,          \* /clear: the tables of the database, present or absent
    clear_pc,        \* /clear: position of the request
    clear_request,   \* /clear: the ClearRequest
    clear_response,  \* /clear: what the caller receives
    connections,     \* /clear: database connections the handler has opened
    wpc,             \* combined /search: position of the request
    wf_query,        \* combined /search: request.query
    use_llm,         \* SimpleAgenticWorkflow.use_llm
    wf_messages,     \* SimpleAgenticWorkflow: messages of the workflow state
    wf_node,         \* SimpleAgenticWorkflow: the node the engine runs next
    wf_steps,        \* SimpleAgenticWorkflow: process_query steps executed
    wf_raised,       \* SimpleAgenticWorkflow: the calls that raised while processing
    wf_docs,         \* SimpleAgenticWorkflow._process_query: retrieved_docs
    wf_result,       \* SimpleAgenticWorkflow.invoke: the dict returned
    wf_response,     \* combined /search: what the caller receives
    conc_store,      \* concurrent use: the store the two threads share
    writer_pc,       \* concurrent use: position of the ingesting thread
    pending,         \* concurrent use: chunks the ingesting thread has built
    reader_pc,       \* concurrent use: position of the searching thread
    reader_n,        \* concurrent use: the list iterator of the search loop
    observed,        \* concurrent use: what the search loop has read
    pipe_pc,         \* data pipeline /ingest: position of each worker thread
    pipe_doc,        \* data pipeline /ingest: content and doc_id of each thread
    pipe_response,   \* data pipeline /ingest: what each caller receives
    req_pc,          \* concurrent /ingest: position of each request
    req_table_exists,\* concurrent /ingest: each request's table_exists result
    req_write,       \* concurrent /ingest: the write each request made
    req_response,    \* concurrent /ingest: what each caller receives
    app_pc,          \* combined /ingest: position of each worker thread
    app_saw_none,    \* combined /ingest: each thread's test of agentic_workflow
    app_ingested     \* combined /ingest: a request has been answered with success

searchVars == <<endpoint, question, table_state, pc, messages, node, steps, graph_error,
                score, scores_seen, tool_failures, context, visited, execution_path,
                sources_used, final_state, final_answer, fallback, response>>

chunkerVars == <<sentences, max_words, overlap_words, chunks, current_chunk,
                 current_length, i, cpc>>

storeVars == <<spc, connection, db2_available, vectorstore, table_rows,
               simple_storage, agentic_workflow, data, added, call>>

ingestVars == <<ipc, url_ok, fetched, ingest_table, stored, ingest_response>>

clearVars == <<tables, clear_pc, clear_request, clear_response, connections>>

workflowVars == <<wpc, wf_query, use_llm, wf_messages, wf_node, wf_steps,
                  wf_raised, wf_docs, wf_result, wf_response>>

threadVars == <<conc_store, writer_pc, pending, reader_pc, reader_n, observed>>

appVars == <<app_pc, app_saw_none, app_ingested>>

pipelineVars == <<pipe_pc, pipe_doc, pipe_response, req_pc, req_table_exists,
                  req_write, req_response, appVars>>

concVars == <<threadVars, pipelineVars>>

restVars == <<clearVars, workflowVars, concVars>>

vars == <<searchVars, chunkerVars, storeVars, ingestVars, restVars>>

Last(s) == s[Len(s)]

(***************************************************************************)
(* Graph engine                                                            *)
(***************************************************************************)

\* graph.stream is called without a config, so the engine's default
\* recursion_limit applies: at most 25 super-steps per run.
RecursionLimit == 25

\* Retrieval calls that may fail within one run.
MaxToolFailures == 1

START == "__start__"
END == "__end__"

Endpoints == {"deployment", "search_api"}
TableStates == {"absent", "empty", "populated"}

Question == "What is machine learning?"

\* The strings a request can carry as its question.
Questions == {"", Question}

\* What a chat-model call can return as message content.
LLMTexts == {"Machine learning is a subset of AI.", "I don't know."}

\* What the structured grader call can return as binary_score: the field is
\* declared str, so any string conforms.
Scores == {"yes", "no", "relevant"}

NoChunk == [node |-> "none", messages |-> <<>>]
NoResponse == [kind |-> "none"]

UserMessage(c) == [role |-> "user", content |-> c, tool_calls |-> FALSE]
AIMessage(c, calls) == [role |-> "assistant", content |-> c, tool_calls |-> calls]
ToolMessage(c) == [role |-> "tool", content |-> c, tool_calls |-> FALSE]

\* A path map that sends a tool request straight to generate_answer.
tools_condition_answer(msgs) ==
    IF Last(msgs).tool_calls THEN "generate_answer" ELSE END

\* langgraph.prebuilt.tools_condition, with the path map of create_graph.
tools_condition(msgs) ==
    IF Last(msgs).tool_calls THEN "retrieve" ELSE END

\* The routing decision at the end of grade_documents.
grade_route_lenient(binary_score) ==
    IF binary_score # "no" THEN "generate_answer" ELSE "rewrite_question"

grade_documents(binary_score) ==
    IF binary_score = "yes" THEN "generate_answer" ELSE "rewrite_question"

\* What the retrieval tool returns as the content of the tool message.
\* deployment: create_retriever_tool joins the page contents of the documents.
\* search_api: retriever_tool formats them, and turns every failure into text.
retriever_tool(ep, table, db_ok) ==
    IF ep = "search_api"
    THEN IF ~db_ok \/ table = "absent" THEN "Error retrieving documents: db"
         ELSE IF table = "empty" THEN "No relevant documents found."
         ELSE "Document 1:\nmachine learning is a subset of AI"
    ELSE IF table = "populated" THEN "machine learning is a subset of AI"
         ELSE ""

\* rewrite_question and generate_answer read the question from the first
\* message of the transcript; the latest user message would be an earlier
\* rewrite.
RECURSIVE rewrite_source_latest(_)
rewrite_source_latest(msgs) ==
    IF Last(msgs).role = "user" THEN Last(msgs).content
    ELSE rewrite_source_latest(SubSeq(msgs, 1, Len(msgs) - 1))

rewrite_source(msgs) == msgs[1].content

\* What the model returns for the rewrite prompt.
rewrite(q) == "Improved: " \o q

\* grade_documents and generate_answer read the context from the first
\* message instead of the last.
context_of_first(msgs) == msgs[1].content

\* grade_documents and generate_answer: context = state["messages"][-1].content
context_of(msgs) == Last(msgs).content

\* The body of the loop over graph.stream in search_and_answer, for one chunk.
TrackOncePerNode(path, node_name) ==
    IF \E k \in 1..Len(path) : path[k] = node_name THEN path
    ELSE Append(path, node_name)

TrackChunk(path, node_name) == Append(path, node_name)

CountSources(n, node_name) == IF node_name = "retrieve" THEN n + 1 ELSE n

\* Number of rewrite passes the run has made.
RECURSIVE CountOf(_, _)
CountOf(s, x) ==
    IF s = <<>> THEN 0
    ELSE (IF s[1] = x THEN 1 ELSE 0) + CountOf(Tail(s), x)

Passes == CountOf(visited, "rewrite_question")

\* The handler consumes the chunk {node_name: {"messages": msgs}}.
Consume(node_name, msgs) ==
    IF endpoint = "deployment"
    THEN /\ final_state' = [node |-> node_name, messages |-> msgs]
         /\ execution_path' = TrackChunk(execution_path, node_name)
         /\ sources_used' = CountSources(sources_used, node_name)
         /\ UNCHANGED final_answer
    ELSE /\ final_answer' = IF node_name = "generate_answer" /\ msgs # <<>>
                            THEN Last(msgs).content ELSE final_answer
         /\ UNCHANGED <<final_state, execution_path, sources_used>>

\* A node or its conditional edge raised: graph.stream raises to the handler.
GraphRaises(cause) ==
    /\ pc' = "failed"
    /\ graph_error' = cause
    /\ UNCHANGED <<messages, node, steps, score, scores_seen, tool_failures,
                   context, visited, execution_path, sources_used,
                   final_state, final_answer>>

(***************************************************************************)
(* Request handlers and graph nodes                                        *)
(***************************************************************************)

ErrorResponse(status, detail) ==
    [kind |-> "error", status |-> status, detail |-> detail]

\* SearchRequest: what the request model checks before the handler runs.
\* deployment declares question: str; search_api declares query with
\* min_length=1.
min_length(ep) == IF ep = "search_api" THEN 1 ELSE 0

\* len(question), as far as min_length tells lengths apart
strlen(str) == IF str = "" THEN 0 ELSE 1

ValidateSearchRequest ==
    /\ pc = "request"
    /\ IF strlen(question) >= min_length(endpoint)
       THEN /\ pc' = "start"
            /\ UNCHANGED response
       ELSE /\ pc' = "responded"
            /\ response' = ErrorResponse(422, "String should have at least 1 character")
    /\ UNCHANGED <<endpoint, question, table_state, context, messages, node, steps,
                   graph_error, score, scores_seen, tool_failures, visited,
                   execution_path, sources_used, final_state, final_answer,
                   fallback>>
    /\ UNCHANGED <<chunkerVars, storeVars, ingestVars, restVars>>

\* search_and_answer up to the first chunk: create_retriever, create_graph and
\* the initial state handed to graph.stream.
StartDeployment ==
    /\ endpoint = "deployment"
    /\ pc = "start"
    /\ \E conn_ok \in BOOLEAN :
         IF ~conn_ok
         THEN /\ response' = ErrorResponse(500, "Database connection failed")
              /\ pc' = "responded"
              /\ UNCHANGED <<messages, node>>
         ELSE IF table_state = "absent"
         THEN /\ response' = ErrorResponse(404, "Table not found")
              /\ pc' = "responded"
              /\ UNCHANGED <<messages, node>>
         ELSE /\ messages' = <<UserMessage(question)>>
              /\ node' = "generate_query_or_respond"
              /\ pc' = "streaming"
              /\ UNCHANGED response
    /\ UNCHANGED <<endpoint, question, table_state, context, steps, graph_error, score, scores_seen,
                   tool_failures, visited, execution_path, sources_used, final_state, final_answer,
                   fallback>>
    /\ UNCHANGED <<chunkerVars, storeVars, ingestVars, restVars>>

\* search up to the first chunk: the graph was built at startup.
StartSearchApi ==
    /\ endpoint = "search_api"
    /\ pc = "start"
    /\ messages' = <<UserMessage(question)>>
    /\ node' = "generate_query_or_respond"
    /\ pc' = "streaming"
    /\ UNCHANGED <<endpoint, question, table_state, context, steps, graph_error, score, scores_seen,
                   tool_failures, visited, execution_path, sources_used, final_state, final_answer,
                   fallback, response>>
    /\ UNCHANGED <<chunkerVars, storeVars, ingestVars, restVars>>

\* Node generate_query_or_respond and its conditional edge tools_condition.
GenerateQueryOrRespond ==
    /\ pc = "streaming"
    /\ node = "generate_query_or_respond"
    /\ steps < RecursionLimit
    /\ \/ GraphRaises("upstream")
       \/ \E m \in {AIMessage("", TRUE)} \cup {AIMessage(c, FALSE) : c \in LLMTexts} :
            /\ messages' = Append(messages, m)
            /\ node' = tools_condition(messages')
            /\ pc' = IF node' = END THEN "ended" ELSE "streaming"
            /\ steps' = steps + 1
            /\ visited' = Append(visited, "generate_query_or_respond")
            /\ Consume("generate_query_or_respond", <<m>>)
            /\ UNCHANGED <<graph_error, score, scores_seen, tool_failures, context>>
    /\ UNCHANGED <<endpoint, question, table_state, fallback, response>>
    /\ UNCHANGED <<chunkerVars, storeVars, ingestVars, restVars>>

\* The structured grader call returned no result, or one without a
\* binary_score: response.binary_score raises inside the conditional edge, so
\* the step fails and graph.stream raises to the handler.
GraderMalformed ==
    /\ pc' = "failed"
    /\ graph_error' = "upstream"
    /\ score' = "malformed"
    /\ scores_seen' = scores_seen \cup {"malformed"}
    /\ UNCHANGED <<messages, node, steps, tool_failures, context, visited,
                   execution_path, sources_used, final_state, final_answer>>

\* Node retrieve (ToolNode over the retriever tool) and its conditional edge
\* grade_documents.  A failing retriever of the deployment service either
\* raises through the ToolNode or is turned into an error tool message,
\* depending on the ToolNode's error handling.
Retrieve ==
    /\ pc = "streaming"
    /\ node = "retrieve"
    /\ steps < RecursionLimit
    /\ \/ GraphRaises("upstream")
       \/ GraderMalformed
       \/ \E db_ok \in {b \in BOOLEAN : b \/ tool_failures < MaxToolFailures},
             binary_score \in Scores :
            LET content == IF endpoint = "deployment" /\ ~db_ok
                           THEN "Error: retriever failed\n Please fix your mistakes."
                           ELSE retriever_tool(endpoint, table_state, db_ok)
                m == ToolMessage(content)
            IN /\ messages' = Append(messages, m)
               /\ tool_failures' = IF db_ok THEN tool_failures ELSE tool_failures + 1
               /\ context' = context_of(messages')
               /\ score' = binary_score
               /\ scores_seen' = scores_seen \cup {binary_score}
               /\ node' = grade_documents(binary_score)
               /\ pc' = "streaming"
               /\ steps' = steps + 1
               /\ visited' = Append(visited, "retrieve")
               /\ Consume("retrieve", <<m>>)
               /\ UNCHANGED graph_error
    /\ UNCHANGED <<endpoint, question, table_state, fallback, response>>
    /\ UNCHANGED <<chunkerVars, storeVars, ingestVars, restVars>>

\* Node rewrite_question; its edge leads back to generate_query_or_respond.
RewriteQuestion ==
    /\ pc = "streaming"
    /\ node = "rewrite_question"
    /\ steps < RecursionLimit
    /\ \/ GraphRaises("upstream")
       \/ LET m == UserMessage(rewrite(rewrite_source(messages)))
          IN /\ messages' = Append(messages, m)
             /\ node' = "generate_query_or_respond"
             /\ pc' = "streaming"
             /\ steps' = steps + 1
             /\ visited' = Append(visited, "rewrite_question")
             /\ Consume("rewrite_question", <<m>>)
             /\ UNCHANGED <<graph_error, score, scores_seen, tool_failures, context>>
    /\ UNCHANGED <<endpoint, question, table_state, fallback, response>>
    /\ UNCHANGED <<chunkerVars, storeVars, ingestVars, restVars>>

\* Node generate_answer; its edge leads to END.
GenerateAnswer ==
    /\ pc = "streaming"
    /\ node = "generate_answer"
    /\ steps < RecursionLimit
    /\ \/ GraphRaises("upstream")
       \/ \E c \in LLMTexts :
            LET m == AIMessage(c, FALSE)
            IN /\ messages' = Append(messages, m)
               /\ node' = END
               /\ pc' = "ended"
               /\ steps' = steps + 1
               /\ visited' = Append(visited, "generate_answer")
               /\ Consume("generate_answer", <<m>>)
               /\ context' = context_of(messages)
               /\ UNCHANGED <<graph_error, score, scores_seen, tool_failures>>
    /\ UNCHANGED <<endpoint, question, table_state, fallback, response>>
    /\ UNCHANGED <<chunkerVars, storeVars, ingestVars, restVars>>

\* The engine has run RecursionLimit super-steps and a node is still
\* scheduled: graph.stream raises GraphRecursionError.
RecursionLimitHit ==
    /\ pc = "streaming"
    /\ steps = RecursionLimit
    /\ GraphRaises("GraphRecursionError")
    /\ UNCHANGED <<endpoint, question, table_state, fallback, response>>
    /\ UNCHANGED <<chunkerVars, storeVars, ingestVars, restVars>>

\* search_and_answer after the stream ended: the answer is read from the last
\* chunk.
DeploymentFinish ==
    /\ endpoint = "deployment"
    /\ pc = "ended"
    /\ response' =
         [kind |-> "ok",
          answer |-> IF final_state # NoChunk /\ final_state.messages # <<>>
                     THEN Last(final_state.messages).content
                     ELSE "I couldn't generate an answer to your question.",
          success |-> final_state # NoChunk /\ final_state.messages # <<>>,
          sources_used |-> sources_used,
          execution_path |-> execution_path]
    /\ pc' = "responded"
    /\ UNCHANGED <<endpoint, question, table_state, context, messages, node, steps, graph_error,
                   score, scores_seen, tool_failures, visited, execution_path, sources_used, final_state,
                   final_answer, fallback>>
    /\ UNCHANGED <<chunkerVars, storeVars, ingestVars, restVars>>

\* search_and_answer when graph.stream raised: except Exception.
DeploymentFail ==
    /\ endpoint = "deployment"
    /\ pc = "failed"
    /\ response' = ErrorResponse(500, "Search failed")
    /\ pc' = "responded"
    /\ UNCHANGED <<endpoint, question, table_state, context, messages, node, steps, graph_error,
                   score, scores_seen, tool_failures, visited, execution_path, sources_used, final_state,
                   final_answer, fallback>>
    /\ UNCHANGED <<chunkerVars, storeVars, ingestVars, restVars>>

\* The end of search: an empty final_answer is an error.
SearchApiResponse(answer) ==
    IF answer = "" THEN ErrorResponse(500, "No answer generated")
    ELSE [kind |-> "ok", success |-> TRUE, answer |-> answer]

\* search after the stream ended.
SearchApiFinish ==
    /\ endpoint = "search_api"
    /\ pc = "ended"
    /\ response' = SearchApiResponse(final_answer)
    /\ pc' = "responded"
    /\ UNCHANGED <<endpoint, question, table_state, context, messages, node, steps, graph_error,
                   score, scores_seen, tool_failures, visited, execution_path, sources_used, final_state,
                   final_answer, fallback>>
    /\ UNCHANGED <<chunkerVars, storeVars, ingestVars, restVars>>

\* search when graph.stream raised: one direct retrieval, one generation.
SearchApiFallback ==
    /\ endpoint = "search_api"
    /\ pc = "failed"
    /\ \/ /\ fallback' = "failed"
          /\ response' = ErrorResponse(500, "Both main workflow and fallback failed")
          /\ UNCHANGED final_answer
       \/ \E c \in LLMTexts :
            /\ fallback' = "answered"
            /\ final_answer' = c
            /\ response' = SearchApiResponse(c)
    /\ pc' = "responded"
    /\ UNCHANGED <<endpoint, question, table_state, context, messages, node, steps, graph_error,
                   score, scores_seen, tool_failures, visited, execution_path, sources_used, final_state>>
    /\ UNCHANGED <<chunkerVars, storeVars, ingestVars, restVars>>

SearchNext ==
    \/ ValidateSearchRequest
    \/ StartDeployment
    \/ StartSearchApi
    \/ GenerateQueryOrRespond
    \/ Retrieve
    \/ RewriteQuestion
    \/ GenerateAnswer
    \/ RecursionLimitHit
    \/ DeploymentFinish
    \/ DeploymentFail
    \/ SearchApiFinish
    \/ SearchApiFallback

SearchInit ==
    /\ endpoint \in Endpoints
    /\ question \in Questions
    /\ table_state \in TableStates
    /\ pc = "request"
    /\ messages = <<>>
    /\ node = START
    /\ steps = 0
    /\ graph_error = "none"
    /\ score = "none"
    /\ scores_seen = {}
    /\ tool_failures = 0
    /\ context = "none"
    /\ visited = <<>>
    /\ execution_path = <<>>
    /\ sources_used = 0
    /\ final_state = NoChunk
    /\ final_answer = ""
    /\ fallback = "not_tried"
    /\ response = NoResponse

\* The chunker is not running.
ChunkerIdle ==
    /\ sentences = <<>>
    /\ max_words = 200
    /\ overlap_words = 50
    /\ chunks = <<>>
    /\ current_chunk = <<>>
    /\ current_length = 0
    /\ i = 0
    /\ cpc = "idle"

\* No request is made of the stores of the combined application.
NoCall == [op |-> "none"]

StoreIdle ==
    /\ spc = "idle"
    /\ connection = "None"
    /\ db2_available = FALSE
    /\ vectorstore = "None"
    /\ table_rows = <<>>
    /\ simple_storage = <<>>
    /\ agentic_workflow = "None"
    /\ data = <<>>
    /\ added = {}
    /\ call = NoCall

\* A local variable that has not been assigned.
Unbound == "<unbound>"

\* No /ingest request of the document ingestion service is in flight.
IngestIdle ==
    /\ ipc = "idle"
    /\ url_ok = TRUE
    /\ fetched = FALSE
    /\ ingest_table = "absent"
    /\ stored = 0
    /\ ingest_response = NoResponse

\* No /clear request is in flight.
ClearIdle ==
    /\ tables = <<>>
    /\ clear_pc = "idle"
    /\ clear_request = NoCall
    /\ clear_response = NoResponse
    /\ connections = 0

\* No /search request of the combined application is in flight.
WorkflowIdle ==
    /\ wpc = "idle"
    /\ wf_query = ""
    /\ use_llm = FALSE
    /\ wf_messages = <<>>
    /\ wf_node = START
    /\ wf_steps = 0
    /\ wf_raised = {}
    /\ wf_docs = Unbound
    /\ wf_result = NoCall
    /\ wf_response = NoResponse

MaxThreads == 2
MaxRequests == 2

\* The worker threads serving /ingest of the data pipeline
Threads == 1..MaxThreads

\* The /ingest requests of the ingestion service that are in flight together
Requests == 1..MaxRequests

NoWrite == [path |-> "none"]

\* No /ingest request of the data pipeline is in flight.
PipeIdle ==
    /\ pipe_pc = [t \in Threads |-> "idle"]
    /\ pipe_doc = [t \in Threads |-> NoCall]
    /\ pipe_response = [t \in Threads |-> NoResponse]

\* No concurrent /ingest requests of the ingestion service are in flight.
RaceIdle ==
    /\ req_pc = [r \in Requests |-> "idle"]
    /\ req_table_exists = [r \in Requests |-> FALSE]
    /\ req_write = [r \in Requests |-> NoWrite]
    /\ req_response = [r \in Requests |-> NoResponse]

\* No /ingest request of the combined application is in flight.
AppIdle ==
    /\ app_pc = [t \in Threads |-> "idle"]
    /\ app_saw_none = [t \in Threads |-> FALSE]
    /\ app_ingested = FALSE

\* No two threads are using a store at the same time.
ThreadIdle ==
    /\ conc_store = "none"
    /\ writer_pc = "idle"
    /\ pending = <<>>
    /\ reader_pc = "idle"
    /\ reader_n = 0
    /\ observed = <<>>

ConcIdle == ThreadIdle /\ PipeIdle /\ RaceIdle /\ AppIdle

RestIdle == ClearIdle /\ WorkflowIdle /\ ConcIdle

Init == SearchInit /\ ChunkerIdle /\ StoreIdle /\ IngestIdle /\ RestIdle

\* One search request, from arrival to response.
Spec == Init /\ [][SearchNext]_vars

(***************************************************************************)
(* Chunker: chunk_text (document-ingestion-api/ingestion_api.py), of which *)
(* overlapping_sentence_chunker (deployment/ingestion_api.py) is a         *)
(* line-for-line copy.  A sentence is identified by its 1-based position   *)
(* in the input and carries its word count; a chunk is the sequence of the *)
(* sentences joined into it.                                               *)
(***************************************************************************)

MaxSentences == 3
MaxSentenceWords == 3
MaxMaxWords == 4

\* Chunks the list can hold before the process is out of memory; more than
\* any returning call emits.
MemoryCapacity == MaxSentences + 2

\* len(sentence.split()) of the sentence at position k
sentence_length(k) == sentences[k]

\* The test of the outer loop's if: the sentence fits into the running chunk.
fits_alone(length, slen) == slen <= max_words

fits(length, slen) == length + slen <= max_words

\* The inner while loop walking current_chunk forward from its first sentence.
RECURSIVE OverlapLoopFromStart(_, _, _, _)
OverlapLoopFromStart(chunk, j, overlap, overlap_len) ==
    IF j >= 1 /\ overlap_len < overlap_words
    THEN OverlapLoopFromStart(chunk, j - 1,
                              Append(overlap, chunk[Len(chunk) - j + 1]),
                              overlap_len + sentence_length(chunk[Len(chunk) - j + 1]))
    ELSE [overlap |-> overlap, overlap_len |-> overlap_len]

\* The inner while loop with the budget test made before a sentence is taken.
RECURSIVE OverlapLoopWithinBudget(_, _, _, _)
OverlapLoopWithinBudget(chunk, j, overlap, overlap_len) ==
    IF j >= 1 /\ overlap_len + sentence_length(chunk[j]) <= overlap_words
    THEN OverlapLoopWithinBudget(chunk, j - 1, <<chunk[j]>> \o overlap,
                                 overlap_len + sentence_length(chunk[j]))
    ELSE [overlap |-> overlap, overlap_len |-> overlap_len]

\* The inner while loop: walks current_chunk backward from index j (1-based)
\* and prepends sentences until overlap_len reaches overlap_words.
RECURSIVE OverlapLoop(_, _, _, _)
OverlapLoop(chunk, j, overlap, overlap_len) ==
    IF j >= 1 /\ overlap_len < overlap_words
    THEN OverlapLoop(chunk, j - 1, <<chunk[j]>> \o overlap,
                     overlap_len + sentence_length(chunk[j]))
    ELSE [overlap |-> overlap, overlap_len |-> overlap_len]

\* One iteration of the outer loop, if branch: the sentence fits.
ChunkerAppend ==
    /\ cpc = "loop"
    /\ i < Len(sentences)
    /\ fits(current_length, sentence_length(i + 1))
    /\ current_chunk' = Append(current_chunk, i + 1)
    /\ current_length' = current_length + sentence_length(i + 1)
    /\ i' = i + 1
    /\ UNCHANGED <<sentences, max_words, overlap_words, chunks, cpc>>
    /\ UNCHANGED <<searchVars, storeVars, ingestVars, restVars>>

\* One iteration of the outer loop, else branch: emit the running chunk and
\* seed the next one with the overlap; i does not move.
ChunkerEmit ==
    /\ cpc = "loop"
    /\ i < Len(sentences)
    /\ ~fits(current_length, sentence_length(i + 1))
    /\ Len(chunks) < MemoryCapacity
    /\ chunks' = Append(chunks, current_chunk)
    /\ LET o == OverlapLoop(current_chunk, Len(current_chunk), <<>>, 0)
       IN /\ current_chunk' = o.overlap
          /\ current_length' = o.overlap_len
    /\ UNCHANGED <<sentences, max_words, overlap_words, i, cpc>>
    /\ UNCHANGED <<searchVars, storeVars, ingestVars, restVars>>

\* The else branch when the chunk list cannot grow any more: chunks.append
\* raises MemoryError.
ChunkerMemoryError ==
    /\ cpc = "loop"
    /\ i < Len(sentences)
    /\ ~fits(current_length, sentence_length(i + 1))
    /\ Len(chunks) = MemoryCapacity
    /\ cpc' = "MemoryError"
    /\ UNCHANGED <<sentences, max_words, overlap_words, chunks, current_chunk,
                   current_length, i>>
    /\ UNCHANGED <<searchVars, storeVars, ingestVars, restVars>>

\* The return that emits the running chunk without testing it.
ChunkerReturnUnguarded ==
    /\ cpc = "loop"
    /\ i >= Len(sentences)
    /\ chunks' = Append(chunks, current_chunk)
    /\ cpc' = "returned"
    /\ UNCHANGED <<sentences, max_words, overlap_words, current_chunk,
                   current_length, i>>
    /\ UNCHANGED <<searchVars, storeVars, ingestVars, restVars>>

\* The return without the final partial chunk.
ChunkerReturnDropsLast ==
    /\ cpc = "loop"
    /\ i >= Len(sentences)
    /\ cpc' = "returned"
    /\ UNCHANGED <<sentences, max_words, overlap_words, chunks, current_chunk,
                   current_length, i>>
    /\ UNCHANGED <<searchVars, storeVars, ingestVars, restVars>>

\* After the loop: the final partial chunk is emitted and chunks returned.
ChunkerReturn ==
    /\ cpc = "loop"
    /\ i >= Len(sentences)
    /\ chunks' = IF current_chunk # <<>> THEN Append(chunks, current_chunk)
                 ELSE chunks
    /\ cpc' = "returned"
    /\ UNCHANGED <<sentences, max_words, overlap_words, current_chunk,
                   current_length, i>>
    /\ UNCHANGED <<searchVars, storeVars, ingestVars, restVars>>

ChunkerNext ==
    \/ ChunkerAppend
    \/ ChunkerEmit
    \/ ChunkerMemoryError
    \/ ChunkerReturn

\* A call with valid parameters: positive, overlap_words < max_words.
ChunkerInit ==
    /\ sentences \in UNION {[1..n -> 1..MaxSentenceWords] : n \in 0..MaxSentences}
    /\ max_words \in 2..MaxMaxWords
    /\ overlap_words \in 1..(MaxMaxWords - 1)
    /\ overlap_words < max_words
    /\ chunks = <<>>
    /\ current_chunk = <<>>
    /\ current_length = 0
    /\ i = 0
    /\ cpc = "loop"

\* No search request is in flight.
SearchIdle ==
    /\ endpoint = "deployment"
    /\ question = ""
    /\ table_state = "empty"
    /\ pc = "idle"
    /\ messages = <<>>
    /\ node = START
    /\ steps = 0
    /\ graph_error = "none"
    /\ score = "none"
    /\ scores_seen = {}
    /\ tool_failures = 0
    /\ context = "none"
    /\ visited = <<>>
    /\ execution_path = <<>>
    /\ sources_used = 0
    /\ final_state = NoChunk
    /\ final_answer = ""
    /\ fallback = "not_tried"
    /\ response = NoResponse

InitChunker == ChunkerInit /\ SearchIdle /\ StoreIdle /\ IngestIdle /\ RestIdle

\* One call of the chunker, from entry to return.
ChunkerSpec == InitChunker /\ [][ChunkerNext]_vars

(***************************************************************************)
(* Claims about the workflow graph and the search handlers                 *)
(***************************************************************************)

\* Rewrite passes that fit into RecursionLimit super-steps: a pass is three
\* super-steps and the run starts with one.
MaxPasses == (RecursionLimit - 1) \div 3

\* DECIDE requested the retrieval tool every time it ran.
DecideAlwaysRequestedTool ==
    \A k \in 1..Len(messages) :
        messages[k].role = "assistant" => messages[k].tool_calls

\* C1: whatever the model and the grader RETURN (no call raising), a run makes
\* at most MaxPasses rewrite passes and then reaches END: graph.stream never
\* ends in an error of its own.
C1_BoundedPassesThenEnd ==
    /\ Passes <= MaxPasses
    /\ pc = "failed" => graph_error = "upstream"

\* C2: once the loop has used up the iteration bound, the next step of the
\* run is ANSWER (generate_answer); the run is not aborted.
C2_BoundForcesAnswer ==
    [][(pc = "streaming" /\ steps = RecursionLimit)
          => /\ graph_error' = "none"
             /\ visited' = Append(visited, "generate_answer")]_vars

\* C3: a request whose grader returned not-relevant on every pass, with DECIDE
\* requesting retrieval every time and no upstream call raising, ends in a
\* non-error response.
C3_AlwaysNotRelevantStillAnswers ==
    (/\ pc = "responded"
     /\ scores_seen = {"no"}
     /\ DecideAlwaysRequestedTool
     /\ graph_error # "upstream"
     /\ fallback # "failed")
        => response.kind = "ok"

\* C4: when the grader's binary_score is anything but 'yes', the node
\* scheduled after retrieve/grade is rewrite_question, never generate_answer.
C4_NonYesRoutesToRewrite ==
    (/\ pc = "streaming"
     /\ visited # <<>>
     /\ Last(visited) = "retrieve"
     /\ score # "yes")
        => node = "rewrite_question"

C4_Witness ==
    /\ pc = "streaming"
    /\ visited # <<>>
    /\ Last(visited) = "retrieve"
    /\ score = "relevant"
    /\ node = "rewrite_question"

\* C5: when the run reached END, the caller receives the content of the last
\* assistant message of the transcript, in both services.
C5_AnswerIsLastAssistantMessage ==
    (pc = "responded" /\ node = END)
        => /\ response.kind = "ok"
           /\ Last(messages).role = "assistant"
           /\ response.answer = Last(messages).content

\* C6: when graph.stream failed, no error reaches the caller unless the
\* fallback path was attempted first.
C6_FallbackBeforeError ==
    (pc = "responded" /\ graph_error # "none" /\ response.kind = "error")
        => fallback # "not_tried"

C8_EmptyStoreZeroSources ==
    (/\ endpoint = "deployment"
     /\ response.kind = "ok"
     /\ table_state = "empty"
     /\ tool_failures = 0)
        => response.sources_used = 0

\* C9: a query against a store without content (table empty or absent), with
\* the database reachable and no upstream call raising, ends in a normal
\* answer, not in an error response.
C9_NoContentIsNotAnError ==
    (/\ pc = "responded"
     /\ question # ""
     /\ table_state \in {"absent", "empty"}
     /\ graph_error = "none"
     /\ response.kind = "error")
        => response.detail \in {"Database connection failed", "No answer generated"}

(***************************************************************************)
(* Claims about the chunker                                                *)
(***************************************************************************)

\* C10: for valid parameters the chunker terminates and returns its chunks,
\* also when the overlap seed plus the next sentence exceeds max_words (no
\* sentence being longer than max_words by itself): a call that has not
\* returned can always take another step.
C10_ChunkerTerminates ==
    (\A k \in 1..Len(sentences) : sentence_length(k) <= max_words)
        => (cpc = "returned" \/ ENABLED ChunkerNext)

\* Words of a chunk: the sum of the word counts of its sentences.
RECURSIVE WordCount(_)
WordCount(chunk) ==
    IF chunk = <<>> THEN 0
    ELSE sentences[chunk[1]] + WordCount(Tail(chunk))

InChunk(s, chunk) == \E k \in 1..Len(chunk) : chunk[k] = s

\* The sentences of chunk that the preceding chunk holds too / does not hold.
Shared(prev, chunk) == SelectSeq(chunk, LAMBDA s : InChunk(s, prev))
NonOverlap(prev, chunk) == SelectSeq(chunk, LAMBDA s : ~InChunk(s, prev))

\* The first chunk followed by the non-overlap content of every later chunk.
RECURSIVE Reconstruct(_, _)
Reconstruct(cs, c) ==
    IF c > Len(cs) THEN <<>>
    ELSE (IF c = 1 THEN cs[1] ELSE NonOverlap(cs[c - 1], cs[c]))
         \o Reconstruct(cs, c + 1)

\* chunk starts with a trailing run of sentences of prev.
StartsWithTrailingOf(prev, chunk) ==
    \E m \in 1..Len(prev) :
        /\ Len(chunk) >= Len(prev) - m + 1
        /\ \A k \in m..Len(prev) : chunk[k - m + 1] = prev[k]

\* C11: a sentence longer than max_words is emitted as a chunk of its own:
\* the call returns, and its chunks hold the chunk made of that sentence alone.
C11_OversizedSentenceOwnChunk ==
    \A k \in 1..Len(sentences) :
        sentence_length(k) > max_words
            => /\ cpc = "returned" \/ ENABLED ChunkerNext
               /\ cpc = "returned" => \E c \in 1..Len(chunks) : chunks[c] = <<k>>

\* C12: every chunk emitted has at most max_words words, unless it is a
\* single sentence that is longer than max_words by itself.
C12_ChunkWithinMaxWords ==
    \A c \in 1..Len(chunks) :
        \/ WordCount(chunks[c]) <= max_words
        \/ Len(chunks[c]) = 1 /\ sentences[chunks[c][1]] > max_words

C12_Witness ==
    /\ cpc = "returned"
    /\ Len(chunks) >= 2
    /\ \E c \in 1..Len(chunks) :
         Len(chunks[c]) >= 2 /\ WordCount(chunks[c]) = max_words

\* C13: the chunks returned, each after the first without the sentences it
\* shares with its predecessor, concatenate to the input sentence sequence.
C13_ChunksReconstructInput ==
    cpc = "returned"
        => Reconstruct(chunks, 1) = [k \in 1..Len(sentences) |-> k]

C13_Witness ==
    /\ cpc = "returned"
    /\ Len(sentences) >= 3
    /\ Len(chunks) >= 2
    /\ Reconstruct(chunks, 1) = [k \in 1..Len(sentences) |-> k]

\* C14: when overlap_words > 0 and more than one chunk is returned, every
\* chunk after the first begins with a trailing sentence of its predecessor.
C14_ConsecutiveChunksShareSentence ==
    (cpc = "returned" /\ overlap_words > 0 /\ Len(chunks) > 1)
        => \A c \in 1..(Len(chunks) - 1) :
               StartsWithTrailingOf(chunks[c], chunks[c + 1])

C14_Witness ==
    /\ cpc = "returned"
    /\ overlap_words > 0
    /\ Len(chunks) > 1
    /\ \A c \in 1..(Len(chunks) - 1) :
           StartsWithTrailingOf(chunks[c], chunks[c + 1])

\* C15: the overlap two consecutive returned chunks share has at most
\* overlap_words words.
C15_OverlapWithinBudget ==
    cpc = "returned"
        => \A c \in 1..(Len(chunks) - 1) :
               WordCount(Shared(chunks[c], chunks[c + 1])) <= overlap_words

\* C31: every chunk of the returned list is a non-empty run of whole input
\* sentences that are consecutive in the input and in their original order.
C31_ChunksAreSentenceRuns ==
    cpc = "returned"
        => \A c \in 1..Len(chunks) :
              /\ Len(chunks[c]) >= 1
              /\ \A k \in 1..Len(chunks[c]) :
                    /\ chunks[c][k] \in 1..Len(sentences)
                    /\ k > 1 => chunks[c][k] = chunks[c][k - 1] + 1

\* A call returned two chunks, the second one an overlap sentence followed
\* by the next sentence of the input.
C31_Witness ==
    /\ cpc = "returned"
    /\ Len(chunks) = 2
    /\ Len(chunks[2]) >= 2
    /\ chunks[2][1] > 1
    /\ chunks[2][2] = chunks[2][1] + 1

\* C32: no element of the returned list is the empty chunk, for every input
\* (the empty one included) and all valid parameters.
C32_NoEmptyChunkReturned ==
    cpc = "returned" => \A c \in 1..Len(chunks) : chunks[c] # <<>>

\* Calls return with and without chunks: an input without sentences gives the
\* empty list, an input that was split gives chunks that all hold sentences.
C32_Witness ==
    /\ cpc = "returned"
    /\ current_chunk # <<>>
    /\ Len(chunks) >= 2
    /\ \A c \in 1..Len(chunks) : chunks[c] # <<>>

(***************************************************************************)
(* Retrieval store of the combined application: GraniteDB2Store            *)
(* (deployment/shared/granite_db2_store.py) behind the /ingest handler of  *)
(* deployment/combined_app.py, and SimpleDB (deployment/shared/            *)
(* simple_db.py).  A string is the sequence of its characters.             *)
(***************************************************************************)

MaxStored == 2
MaxChunksPerDoc == 2
MaxK == 2
MaxDocuments == 1

\* The chunk texts the text splitter produces.
Texts == {<<"A", "b">>, <<"b">>}

\* The queries callers send.
Queries == {<<"a">>, <<"B">>, <<"c">>, <<"a", " ", "c", ".">>, <<"?">>}

DocId == "doc_1"

\* doc['source']: the url the document was ingested from
Source == "https://example.com/post"

\* str.lower
LowerChar(c) == IF c = "A" THEN "a" ELSE IF c = "B" THEN "b" ELSE c
lower(str) == [n \in 1..Len(str) |-> LowerChar(str[n])]

\* the in operator on two strings: sub occurs in str
Contains(str, sub) ==
    \E p \in 0..(Len(str) - Len(sub)) : SubSeq(str, p + 1, p + Len(sub)) = sub

\* str.split(): the maximal runs without whitespace
RECURSIVE split(_, _, _)
split(str, n, word) ==
    LET flush == IF word = <<>> THEN <<>> ELSE <<word>>
    IN IF n > Len(str) THEN flush
       ELSE IF str[n] = " " THEN flush \o split(str, n + 1, <<>>)
       ELSE split(str, n + 1, Append(word, str[n]))

Punctuation == {".", ",", "!", "?", ";", ":"}

\* word.strip('.,!?;:')
RECURSIVE strip(_)
strip(word) ==
    IF word = <<>> THEN word
    ELSE IF word[1] \in Punctuation THEN strip(Tail(word))
    ELSE IF word[Len(word)] \in Punctuation THEN strip(SubSeq(word, 1, Len(word) - 1))
    ELSE word

\* add_documents: one chunk per text the splitter returns, numbered from 0
MakeChunks(doc_id, text_chunks) ==
    [n \in 1..Len(text_chunks) |->
        [id |-> <<doc_id, "chunk", n - 1>>, content |-> text_chunks[n],
         source |-> Source, metadata |-> [url |-> Source]]]

ChunkIds(cs) == [n \in 1..Len(cs) |-> cs[n].id]

\* A store that starts with a sample chunk in its fallback storage.
PreloadedStorage == MakeChunks(DocId, <<(<<"A", "b">>)>>)

\* __init__: the fallback storage of a new store
NewStorage == <<>>

\* A fallback that logs and keeps nothing.
fallback_discards(storage, cs) == storage

\* _fallback_to_simple_storage
fallback_to_simple_storage(storage, cs) == storage \o cs

\* similarity_search, simple branch: the loop over simple_storage from
\* position n on, with the results collected so far.
RECURSIVE simple_search(_, _, _, _, _)
simple_search(storage, n, query_lower, k, results) ==
    IF n > Len(storage) THEN results
    ELSE IF Contains(lower(storage[n].content), query_lower)
         THEN LET r == Append(results, storage[n])
              IN IF Len(r) >= k THEN r
                 ELSE simple_search(storage, n + 1, query_lower, k, r)
         ELSE simple_search(storage, n + 1, query_lower, k, results)

\* similarity_search, DB2 branch: the formatted results of the n rows DB2VS
\* returned.
formatted_results(rows, n) ==
    [m \in 1..n |-> [id |-> <<"result", m - 1>>, content |-> rows[m]]]

\* SimpleDB.search: the query words found in a document's content
found_words(query_words, content_lower) ==
    Cardinality({n \in 1..Len(query_words) :
                    Contains(content_lower, strip(query_words[n]))})

\* SimpleDB.search: at least one word and at least half of the words found
db_match(query_words, doc) ==
    LET f == found_words(query_words, lower(doc.content))
    IN f > 0 /\ 2 * f >= Len(query_words)

db_search(docs, query) ==
    LET query_words == split(lower(query), 1, <<>>)
    IN SelectSeq(docs, LAMBDA doc : db_match(query_words, doc))

\* similarity_search: the storage the search reads
consulted_storage ==
    IF vectorstore # "None" THEN "DB2VS" ELSE "simple_storage"

\* SimpleSearchCore.health_check
health_check ==
    [database |-> TRUE, search_core |-> TRUE, total_documents |-> Len(data)]

\* all(health_status.values()): a number counts as true when it is not 0
all_values(health_status) ==
    /\ health_status.database
    /\ health_status.search_core
    /\ health_status.total_documents # 0

\* get_retriever_tool: the DB2 retriever tool once add_documents has made
\* one, a SimpleRetrieverTool over similarity_search otherwise
get_retriever_tool(vs) ==
    IF vs # "None" THEN "retrieve_blog_posts" ELSE "SimpleRetrieverTool"

\* create_agentic_workflow(retriever_tool): a new object with every call,
\* named here by the tool it holds and the request that created it
create_agentic_workflow(tool, request) ==
    "SimpleAgenticWorkflow(" \o tool \o ") of request " \o ToString(request)

Workflows ==
    {create_agentic_workflow(tool, 1) :
        tool \in {"retrieve_blog_posts", "SimpleRetrieverTool"}}

\* ingest_url lines 76-80, run without interruption: the workflow is created
\* by the first document only
initialize_workflow(workflow, vs) ==
    IF workflow = "None"
    THEN create_agentic_workflow(get_retriever_tool(vs), 1)
    ELSE workflow

\* get_stats
get_stats ==
    [db2_available |-> db2_available,
     vectorstore_type |-> IF db2_available THEN "DB2VS" ELSE "SimpleStorage",
     storage_mode |-> IF vectorstore # "None" THEN "DB2" ELSE "Simple",
     total_chunks |-> Len(simple_storage)]

\* __init__, up to the call of _initialize_connection
Construct ==
    /\ spc = "new"
    /\ connection' = "None"
    /\ vectorstore' = "None"
    /\ db2_available' = FALSE
    /\ simple_storage' = NewStorage
    /\ spc' = "connecting"
    /\ UNCHANGED <<table_rows, agentic_workflow, data, added, call>>
    /\ UNCHANGED <<searchVars, chunkerVars, ingestVars, restVars>>

\* _initialize_connection: ibm_db.connect returns a connection or raises.
InitializeConnection ==
    /\ spc = "connecting"
    /\ \E connected \in BOOLEAN :
        IF connected
        THEN /\ connection' = "ibm_db"
             /\ db2_available' = TRUE
        ELSE /\ db2_available' = FALSE
             /\ UNCHANGED connection
    /\ spc' = "ready"
    /\ UNCHANGED <<vectorstore, table_rows, simple_storage, agentic_workflow,
                   data, added, call>>
    /\ UNCHANGED <<searchVars, chunkerVars, ingestVars, restVars>>

\* POST /ingest of the combined application: download the page, then
\* add_documents([doc]); the first document also creates the workflow.
IngestUrl ==
    /\ spc = "ready"
    /\ \E download_ok \in BOOLEAN :
        IF ~download_ok
        THEN /\ call' = [op |-> "ingest_url", path |-> "not_called",
                         status |-> 500]
             /\ UNCHANGED <<vectorstore, table_rows, simple_storage,
                            agentic_workflow, added>>
        ELSE \E text_chunks \in UNION {[1..n -> Texts] : n \in 1..MaxChunksPerDoc},
                write_ok \in BOOLEAN :
             LET cs == MakeChunks(DocId, text_chunks)
                 use_db2 == db2_available /\ connection # "None"
                 path == IF use_db2 THEN (IF write_ok THEN "db2" ELSE "db2_failed")
                         ELSE "no_db2"
             IN /\ IF path = "db2"
                   THEN /\ Len(table_rows) + Len(cs) <= MaxStored
                        /\ table_rows' = table_rows \o text_chunks
                        /\ vectorstore' = "DB2VS"
                        /\ UNCHANGED simple_storage
                   ELSE /\ Len(simple_storage) + Len(cs) <= MaxStored
                        /\ simple_storage' = fallback_to_simple_storage(simple_storage, cs)
                        /\ UNCHANGED <<table_rows, vectorstore>>
                /\ agentic_workflow' =
                      initialize_workflow(agentic_workflow, vectorstore')
                /\ added' = added \cup {"GraniteDB2Store"}
                /\ call' = [op |-> "ingest_url", path |-> path, status |-> 200,
                            chunks |-> cs, ids |-> ChunkIds(cs),
                            chunks_created |-> Len(cs),
                            storage_mode |-> IF db2_available THEN "DB2" ELSE "Simple"]
    /\ UNCHANGED <<spc, connection, db2_available, data>>
    /\ UNCHANGED <<searchVars, chunkerVars, ingestVars, restVars>>

\* similarity_search(query, k)
SimilaritySearch ==
    /\ spc = "ready"
    /\ \E query \in Queries, k \in 0..MaxK :
        IF vectorstore # "None"
        THEN \E raises \in BOOLEAN, n \in 0..MaxK :
                /\ n <= k
                /\ n <= Len(table_rows)
                /\ raises => n = 0
                /\ call' = [op |-> "similarity_search", k |-> k,
                            branch |-> IF raises THEN "except" ELSE "db2",
                            results |-> formatted_results(table_rows, n),
                            raised |-> FALSE]
        ELSE call' = [op |-> "similarity_search", k |-> k, branch |-> "simple",
                      results |-> simple_search(simple_storage, 1, lower(query),
                                                k, <<>>),
                      raised |-> FALSE]
    /\ UNCHANGED <<spc, connection, db2_available, vectorstore, table_rows,
                   simple_storage, agentic_workflow, data, added>>
    /\ UNCHANGED <<searchVars, chunkerVars, ingestVars, restVars>>

\* SimpleDB.add_document
AddDocument ==
    /\ Len(data) < MaxDocuments
    /\ \E content \in Texts :
        /\ data' = Append(data, [id |-> DocId, content |-> content,
                                 source |-> Source])
        /\ call' = [op |-> "add_document", returned |-> DocId]
    /\ added' = added \cup {"SimpleDB"}
    /\ UNCHANGED <<spc, connection, db2_available, vectorstore, table_rows,
                   simple_storage, agentic_workflow>>
    /\ UNCHANGED <<searchVars, chunkerVars, ingestVars, restVars>>

\* SimpleDB.search(query)
Search ==
    /\ \E query \in Queries :
        call' = [op |-> "search", query |-> query,
                 results |-> db_search(data, query), raised |-> FALSE]
    /\ UNCHANGED <<spc, connection, db2_available, vectorstore, table_rows,
                   simple_storage, agentic_workflow, data, added>>
    /\ UNCHANGED <<searchVars, chunkerVars, ingestVars, restVars>>

\* GET /health of the search pipeline
Health ==
    /\ call' = [op |-> "health",
                status |-> IF all_values(health_check) THEN "healthy"
                           ELSE "degraded",
                components |-> health_check]
    /\ UNCHANGED <<spc, connection, db2_available, vectorstore, table_rows,
                   simple_storage, agentic_workflow, data, added>>
    /\ UNCHANGED <<searchVars, chunkerVars, ingestVars, restVars>>

StoreNext ==
    \/ Construct
    \/ InitializeConnection
    \/ IngestUrl
    \/ SimilaritySearch
    \/ AddDocument
    \/ Search
    \/ Health

\* The combined application starts: the store is about to be constructed,
\* SimpleDB is empty, and the DB2 table holds what earlier runs left in it.
StoreInit ==
    /\ spc = "new"
    /\ connection = "None"
    /\ db2_available = FALSE
    /\ vectorstore = "None"
    /\ table_rows \in {<<>>, <<(<<"b">>)>>}
    /\ simple_storage = <<>>
    /\ agentic_workflow = "None"
    /\ data = <<>>
    /\ added = {}
    /\ call = NoCall

InitStore == StoreInit /\ SearchIdle /\ ChunkerIdle /\ IngestIdle /\ RestIdle

StoreSpec == InitStore /\ [][StoreNext]_vars

(***************************************************************************)
(* Claims about the retrieval store                                        *)
(***************************************************************************)

\* C16: for every query, every k >= 0 and every store content,
\* similarity_search(query, k) returns at most k results.
C16_AtMostKResults ==
    call.op = "similarity_search" => Len(call.results) <= call.k

\* The last Len(cs) entries of the fallback storage are the chunks cs.
StoredLast(cs) ==
    /\ Len(simple_storage) >= Len(cs)
    /\ SubSeq(simple_storage, Len(simple_storage) - Len(cs) + 1,
              Len(simple_storage)) = cs

\* C17: a search on a store into which nothing has been added returns an
\* empty sequence and does not raise, whatever the query: similarity_search
\* of GraniteDB2Store and search of SimpleDB.
C17_EmptyStoreSearchIsEmpty ==
    /\ (call.op = "similarity_search" /\ "GraniteDB2Store" \notin added)
          => (call.results = <<>> /\ ~call.raised)
    /\ (call.op = "search" /\ "SimpleDB" \notin added)
          => (call.results = <<>> /\ ~call.raised)

\* A connected store whose DB2 table holds rows of an earlier run has been
\* searched before anything was added to it.
C17_Witness ==
    /\ call.op = "similarity_search"
    /\ added = {}
    /\ db2_available
    /\ table_rows # <<>>
    /\ call.k > 0

\* C18: whenever chunks have been written to the in-memory fallback storage
\* instead of DB2, db2_available is false and the storage_mode that /ingest
\* reports from it is "Simple".
C18_FallbackIsReported ==
    simple_storage # <<>> =>
        /\ ~db2_available
        /\ (call.op = "ingest_url" /\ call.status = 200)
              => call.storage_mode = "Simple"

\* C19: when the DB2 connection is unavailable or the DB2 write fails,
\* add_documents appends the chunks to the fallback storage and returns
\* their ids to the caller, which answers 200.
C19_FallbackInsteadOfRaising ==
    (call.op = "ingest_url" /\ call.path \in {"no_db2", "db2_failed"}) =>
        /\ call.status = 200
        /\ call.chunks # <<>>
        /\ call.ids = ChunkIds(call.chunks)
        /\ StoredLast(call.chunks)

\* A connected store whose DB2 write failed.
C19_Witness ==
    /\ call.op = "ingest_url"
    /\ call.path = "db2_failed"
    /\ db2_available
    /\ Len(call.ids) = MaxChunksPerDoc

\* C33: after any sequence of add_documents calls, each one written to DB2
\* or fallen back to the in-memory storage, every chunk a call returned an
\* id for is held in the storage similarity_search reads: chunks held in the
\* in-memory storage are what the search consults.
C33_AcknowledgedChunksAreSearched ==
    \A n \in 1..Len(simple_storage) : consulted_storage = "simple_storage"

\* The words of the query a document's content contains, punctuation and
\* case apart.
WordsContained(query, doc) ==
    LET query_words == split(lower(query), 1, <<>>)
    IN {n \in 1..Len(query_words) :
           /\ strip(query_words[n]) # <<>>
           /\ Contains(lower(doc.content), strip(query_words[n]))}

\* C37: SimpleDB.search(query) returns, in insertion order, exactly the
\* documents whose content contains at least one word of the query and at
\* least half of the query's words; a document that contains none of the
\* query's words is not returned.
C37_SearchReturnsWordMatches ==
    call.op = "search"
        => call.results =
              SelectSeq(data, LAMBDA doc :
                  LET found == Cardinality(WordsContained(call.query, doc))
                  IN /\ found > 0
                     /\ 2 * found >= Len(split(lower(call.query), 1, <<>>)))

\* C38: /health of the search pipeline reports healthy whenever the database
\* and the search core are healthy, however many documents are stored, and
\* degraded only when a component check fails.
C38_HealthyWhenComponentsHealthy ==
    call.op = "health"
        => (call.status = "healthy"
               <=> (call.components.database /\ call.components.search_core))

(***************************************************************************)
(* Document ingestion service: POST /ingest of                             *)
(* document-ingestion-api/ingestion_api.py.  One request is in flight; the *)
(* chunking step is the chunker above, run on the request's parameters.    *)
(***************************************************************************)

IngestResponse(message, n) ==
    [kind |-> "ok", status |-> 200, success |-> TRUE, message |-> message,
     chunks_created |-> n]

\* IngestRequest: what the request model checks before the handler runs.
\* url must parse as an http url; max_words and overlap_words are any int.
IngestValidate ==
    /\ ipc = "request"
    /\ IF url_ok
       THEN /\ ipc' = "handler"
            /\ UNCHANGED ingest_response
       ELSE /\ ipc' = "done"
            /\ ingest_response' = ErrorResponse(422, "url: invalid or missing URL scheme")
    /\ UNCHANGED <<url_ok, fetched, ingest_table, stored>>
    /\ UNCHANGED <<searchVars, chunkerVars, storeVars, restVars>>

\* ingest_document: trafilatura.fetch_url
IngestFetch ==
    /\ ipc = "handler"
    /\ fetched' = TRUE
    /\ \E downloaded \in BOOLEAN :
        IF downloaded
        THEN /\ ipc' = "downloaded"
             /\ UNCHANGED ingest_response
        ELSE /\ ipc' = "done"
             /\ ingest_response' = ErrorResponse(400, "Failed to fetch content from URL")
    /\ UNCHANGED <<url_ok, ingest_table, stored>>
    /\ UNCHANGED <<searchVars, chunkerVars, storeVars, restVars>>

\* ingest_document: trafilatura.extract, then the call of chunk_text up to
\* its loop: the sentences are those of the article.
IngestExtract ==
    /\ ipc = "downloaded"
    /\ \E article \in BOOLEAN :
        IF article
        THEN /\ sentences' \in UNION {[1..n -> 1..MaxSentenceWords] : n \in 0..MaxSentences}
             /\ cpc' = "loop"
             /\ ipc' = "chunking"
             /\ UNCHANGED ingest_response
        ELSE /\ ipc' = "done"
             /\ ingest_response' = ErrorResponse(400, "Failed to extract text from URL")
             /\ UNCHANGED <<sentences, cpc>>
    /\ UNCHANGED <<max_words, overlap_words, chunks, current_chunk, current_length, i>>
    /\ UNCHANGED <<url_ok, fetched, ingest_table, stored>>
    /\ UNCHANGED <<searchVars, storeVars, restVars>>

\* ingest_document after chunk_text returned: connect, load the embedding
\* model, then add_texts to the existing table or from_texts into a new one.
IngestStore ==
    /\ ipc = "chunking"
    /\ cpc = "returned"
    /\ ipc' = "done"
    /\ IF chunks = <<>>
       THEN /\ ingest_response' = ErrorResponse(400, "No text chunks were created")
            /\ UNCHANGED <<ingest_table, stored>>
       ELSE \E outcome \in {"connection_failed", "model_not_found", "write_failed", "ok"} :
            CASE outcome = "connection_failed" ->
                    /\ ingest_response' = ErrorResponse(500, "Database connection failed")
                    /\ UNCHANGED <<ingest_table, stored>>
              [] outcome = "model_not_found" ->
                    /\ ingest_response' = ErrorResponse(500, "Ingestion failed")
                    /\ UNCHANGED <<ingest_table, stored>>
              [] outcome = "write_failed" ->
                    /\ ingest_response' = ErrorResponse(500, "Ingestion failed")
                    /\ ingest_table' \in {ingest_table, "present"}
                    /\ UNCHANGED stored
              [] outcome = "ok" ->
                    /\ ingest_response' =
                          IngestResponse(IF ingest_table = "present"
                                         THEN "Added chunks to existing table"
                                         ELSE "Created table", Len(chunks))
                    /\ ingest_table' = "present"
                    /\ stored' = Len(chunks)
    /\ UNCHANGED <<url_ok, fetched>>
    /\ UNCHANGED <<searchVars, chunkerVars, storeVars, restVars>>

\* ingest_document: chunk_text raised; the handler's except answers 500.
IngestChunkingFails ==
    /\ ipc = "chunking"
    /\ cpc = "MemoryError"
    /\ ipc' = "done"
    /\ ingest_response' = ErrorResponse(500, "Ingestion failed")
    /\ UNCHANGED <<url_ok, fetched, ingest_table, stored>>
    /\ UNCHANGED <<searchVars, chunkerVars, storeVars, restVars>>

IngestNext ==
    \/ IngestValidate
    \/ IngestFetch
    \/ IngestExtract
    \/ ChunkerAppend
    \/ ChunkerEmit
    \/ ChunkerMemoryError
    \/ ChunkerReturn
    \/ IngestStore
    \/ IngestChunkingFails

\* A request arrives with any integers as its chunking parameters.
IngestInit ==
    /\ ipc = "request"
    /\ url_ok \in BOOLEAN
    /\ fetched = FALSE
    /\ ingest_table \in {"absent", "present"}
    /\ stored = 0
    /\ ingest_response = NoResponse
    /\ sentences = <<>>
    /\ max_words \in 0..MaxMaxWords
    /\ overlap_words \in 0..MaxMaxWords
    /\ chunks = <<>>
    /\ current_chunk = <<>>
    /\ current_length = 0
    /\ i = 0
    /\ cpc = "idle"

InitIngest == IngestInit /\ SearchIdle /\ StoreIdle /\ RestIdle

IngestSpec == InitIngest /\ [][IngestNext]_vars

(***************************************************************************)
(* Claims about the document ingestion service                             *)
(***************************************************************************)

InvalidChunkingParams ==
    max_words <= 0 \/ overlap_words <= 0 \/ overlap_words >= max_words

\* C20: an ingest request whose chunking parameters are invalid
\* (max_words <= 0, overlap_words <= 0 or overlap_words >= max_words) is
\* rejected at the request boundary: it is never fetched, chunked or
\* stored, and the answer it gets is the validation error.
C20_InvalidParamsRejectedAtBoundary ==
    (ipc # "idle" /\ InvalidChunkingParams) =>
        /\ ~fetched
        /\ cpc = "idle"
        /\ stored = 0
        /\ ipc \in {"request", "done"}
        /\ ipc = "done" => ingest_response.status = 422

(***************************************************************************)
(* Claims about the request boundary of the search services                *)
(***************************************************************************)

\* C21: a search request with an empty question is rejected at the request
\* boundary in every search service: the handler never starts, no message
\* enters the workflow, and the answer is the validation error.
C21_EmptyQuestionRejected ==
    (pc # "idle" /\ question = "") =>
        /\ pc \in {"request", "responded"}
        /\ messages = <<>>
        /\ steps = 0
        /\ pc = "responded" => response = ErrorResponse(422, "String should have at least 1 character")

(***************************************************************************)
(* Claims about the transitions and the transcript of the workflow graph   *)
(***************************************************************************)

\* The edges of the graph.  GRADE is the conditional edge grade_documents,
\* which runs within the retrieve step: retrieve stands for RETRIEVE
\* followed by GRADE.
Successors(n) ==
    CASE n = START -> {"generate_query_or_respond"}
      [] n = "generate_query_or_respond" -> {"retrieve", END}
      [] n = "retrieve" -> {"generate_answer", "rewrite_question"}
      [] n = "rewrite_question" -> {"generate_query_or_respond"}
      [] n = "generate_answer" -> {END}
      [] OTHER -> {}

\* The nodes executed so far, from START, followed by the node scheduled.
Path == <<START>> \o visited \o (IF node = START THEN <<>> ELSE <<node>>)

\* C25: a run takes only the transitions START->DECIDE, DECIDE->RETRIEVE,
\* DECIDE->END, RETRIEVE->GRADE->ANSWER, RETRIEVE->GRADE->REWRITE,
\* REWRITE->DECIDE and ANSWER->END, and ANSWER runs only directly after a
\* RETRIEVE with its GRADE.
C25_OnlyGraphTransitions ==
    /\ \A k \in 1..(Len(Path) - 1) : Path[k + 1] \in Successors(Path[k])
    /\ \A k \in 1..Len(visited) :
          visited[k] = "generate_answer" => (k > 1 /\ visited[k - 1] = "retrieve")

C25_Witness ==
    /\ pc = "ended"
    /\ Passes >= 1
    /\ Last(visited) = "generate_answer"

IsPrefix(a, b) == Len(a) <= Len(b) /\ SubSeq(b, 1, Len(a)) = a

\* C26: the transcript only grows by appending, its first message is the
\* user's question, and every rewrite is the rewrite of that question.
C26_TranscriptAppendOnly ==
    /\ [](messages # <<>> => messages[1] = UserMessage(question))
    /\ [](\A k \in 2..Len(messages) :
             messages[k].role = "user" => messages[k].content = rewrite(question))
    /\ [][IsPrefix(messages, messages')]_vars

C26_Witness ==
    /\ Passes >= 2
    /\ question # ""
    /\ Last(visited) = "rewrite_question"
    /\ Last(messages) = UserMessage(rewrite(question))

\* C27: when GRADE or ANSWER runs, the last message of the transcript is the
\* tool message of the latest RETRIEVE, and its content is the context the
\* grader and the answer synthesizer are given.
C27_ContextIsLatestToolMessage ==
    /\ (pc = "streaming" /\ node = "generate_answer")
          => Last(messages).role = "tool"
    /\ (visited # <<>> /\ Last(visited) = "retrieve")
          => (Last(messages).role = "tool" /\ context = Last(messages).content)
    /\ (visited # <<>> /\ Last(visited) = "generate_answer")
          => /\ messages[Len(messages) - 1].role = "tool"
             /\ context = messages[Len(messages) - 1].content

C27_Witness ==
    /\ Passes >= 1
    /\ Last(visited) = "generate_answer"
    /\ table_state = "populated"
    /\ context = retriever_tool(endpoint, table_state, TRUE)

\* C28: a grader result that does not conform to the schema counts as
\* not-relevant: the run goes on to rewrite_question and no error arises.
C28_MalformedGradeMeansRewrite ==
    score = "malformed" =>
        /\ graph_error = "none"
        /\ pc = "streaming"
        /\ node = "rewrite_question"

\* What a failed retrieval call leaves as the content of a tool message.
RetrievalErrorTexts ==
    {"Error retrieving documents: db",
     "Error: retriever failed\n Please fix your mistakes."}

\* C29: a failed retrieval call ends the request with an error response; its
\* error text never enters the transcript as retrieved context.
C29_RetrievalFailureIsTerminal ==
    /\ \A k \in 1..Len(messages) :
          messages[k].role = "tool" => messages[k].content \notin RetrievalErrorTexts
    /\ (pc = "responded" /\ tool_failures > 0) => response.kind = "error"

(***************************************************************************)
(* Document ingestion service: POST /clear of                              *)
(* document-ingestion-api/ingestion_api.py.  The handler has no await, so  *)
(* it runs from entry to response without another request in between.      *)
(***************************************************************************)

MaxConnections == 3

TableNames == {"DOCUMENTS_EUCLIDEAN", "AI_KNOWLEDGE"}

ClearResponse(message) ==
    [kind |-> "ok", status |-> 200, success |-> TRUE, message |-> message]

\* A handler that does not look at the confirm flag.
confirm_ignored(request) == FALSE

\* clear_table: if not request.confirm
confirm_missing(request) == ~request.confirm

\* A ClearRequest arrives; confirm defaults to False.
ClearArrive ==
    /\ clear_pc = "waiting"
    /\ connections < MaxConnections
    /\ clear_request' \in [table_name : TableNames, confirm : BOOLEAN]
    /\ clear_response' = NoResponse
    /\ clear_pc' = "handler"
    /\ UNCHANGED <<tables, connections>>
    /\ UNCHANGED <<searchVars, chunkerVars, storeVars, ingestVars, workflowVars,
                   concVars>>

\* clear_table
ClearTable ==
    /\ clear_pc = "handler"
    /\ clear_pc' = "waiting"
    /\ IF confirm_missing(clear_request)
       THEN /\ clear_response' = ErrorResponse(400, "Must set 'confirm=true' to clear table.")
            /\ UNCHANGED <<tables, connections>>
       ELSE \E outcome \in {"connection_failed", "query_failed", "drop_failed", "ok"} :
            IF outcome = "connection_failed"
            THEN /\ clear_response' = ErrorResponse(500, "Database connection failed")
                 /\ UNCHANGED <<tables, connections>>
            ELSE /\ connections' = connections + 1
                 /\ IF outcome = "query_failed"
                    THEN /\ clear_response' = ErrorResponse(500, "Failed to clear table")
                         /\ UNCHANGED tables
                    ELSE IF tables[clear_request.table_name] = "absent"
                    THEN /\ clear_response' = ErrorResponse(404, "Table does not exist")
                         /\ UNCHANGED tables
                    ELSE IF outcome = "drop_failed"
                    THEN /\ clear_response' = ErrorResponse(500, "Failed to clear table")
                         /\ UNCHANGED tables
                    ELSE /\ tables' = [tables EXCEPT ![clear_request.table_name] = "absent"]
                         /\ clear_response' = ClearResponse("Table has been completely removed")
    /\ UNCHANGED clear_request
    /\ UNCHANGED <<searchVars, chunkerVars, storeVars, ingestVars, workflowVars,
                   concVars>>

ClearNext ==
    \/ ClearArrive
    \/ ClearTable

\* The service is up; each table exists or not.
ClearInit ==
    /\ tables \in [TableNames -> {"absent", "present"}]
    /\ clear_pc = "waiting"
    /\ clear_request = NoCall
    /\ clear_response = NoResponse
    /\ connections = 0

InitClear ==
    ClearInit /\ SearchIdle /\ ChunkerIdle /\ StoreIdle /\ IngestIdle
        /\ WorkflowIdle /\ ConcIdle

ClearSpec == InitClear /\ [][ClearNext]_vars

\* C22: /clear changes a table only by dropping the table the request names,
\* and only when confirm is true and that table exists; without confirm it
\* answers 400, opens no connection and changes no table; for a missing
\* table it answers 404 (the database being reachable) and changes no table.
C22_ClearNeedsConfirmAndTable ==
    [][(clear_pc = "handler" /\ clear_pc' = "waiting") =>
          LET name == clear_request.table_name
          IN /\ tables' # tables =>
                  /\ clear_request.confirm
                  /\ tables[name] = "present"
                  /\ tables' = [tables EXCEPT ![name] = "absent"]
                  /\ clear_response'.status = 200
             /\ ~clear_request.confirm =>
                  /\ clear_response'.status = 400
                  /\ connections' = connections
                  /\ tables' = tables
             /\ (clear_request.confirm /\ tables[name] = "absent"
                    /\ clear_response'.status # 500) =>
                  /\ clear_response'.status = 404
                  /\ tables' = tables]_vars

\* A request without confirm for an existing table has been answered 400.
C22_Witness ==
    /\ clear_pc = "waiting"
    /\ clear_request # NoCall
    /\ ~clear_request.confirm
    /\ tables[clear_request.table_name] = "present"
    /\ clear_response.status = 400
    /\ connections = 0

(***************************************************************************)
(* Combined application: POST /search (deployment/combined_app.py) over    *)
(* SimpleAgenticWorkflow (deployment/shared/langgraph_workflow.py), a      *)
(* graph of the single node process_query.                                 *)
(***************************************************************************)

\* What the retriever tool returns: the DB2 tool joins the documents (empty
\* when there are none), the fallback tool has a text for no documents.
RetrievedDocs ==
    {"", "No relevant documents found.", "machine learning is a subset of AI"}

\* A graph whose process_query node leads back to itself.
workflow_edge_loop(n) == "process_query"

\* _build_workflow: add_edge("process_query", END)
workflow_edge(n) == END

\* _generate_simple_response
generate_simple_response(query, retrieved_docs) ==
    IF retrieved_docs = "" \/ retrieved_docs = "No relevant documents found."
    THEN "I couldn't find specific information about '" \o query
            \o "' in the knowledge base."
    ELSE "Based on the available information, here's what I found regarding '"
            \o query \o "':\n\n" \o retrieved_docs

\* _process_query: the two attempts to call the retriever tool.  Each either
\* raises or returns the documents as text.
RetrievalOutcomes ==
    {[raised |-> {}, ok |-> TRUE, docs |-> d] : d \in RetrievedDocs}
    \cup {[raised |-> {"retriever_tool.invoke(dict)"}, ok |-> TRUE, docs |-> d] :
             d \in RetrievedDocs}
    \cup {[raised |-> {"retriever_tool.invoke(dict)", "retriever_tool.invoke(str)"},
           ok |-> FALSE, docs |-> ""]}

\* search_documents up to the call of the graph: without a workflow the
\* handler answers not_ready; otherwise invoke builds the initial state.
SearchDocuments ==
    /\ wpc = "request"
    /\ IF agentic_workflow = "None"
       THEN /\ wf_response' = [kind |-> "ok", status |-> "not_ready",
                               answer |-> "Please ingest at least one document first to initialize the agentic workflow."]
            /\ wpc' = "responded"
            /\ UNCHANGED <<wf_messages, wf_node>>
       ELSE /\ wf_messages' = <<UserMessage(wf_query)>>
            /\ wf_node' = "process_query"
            /\ wpc' = "workflow"
            /\ UNCHANGED wf_response
    /\ UNCHANGED <<wf_query, use_llm, wf_steps, wf_raised, wf_docs,
                   wf_result>>
    /\ UNCHANGED <<searchVars, chunkerVars, storeVars, ingestVars, clearVars,
                   concVars>>

\* Node process_query: retrieval, then response generation; every exception
\* ends in an assistant message.
ProcessQuery ==
    /\ wpc = "workflow"
    /\ wf_node = "process_query"
    /\ wf_steps < RecursionLimit
    /\ \E retrieval \in RetrievalOutcomes, llm \in {"raise"} \cup LLMTexts :
        LET query == Last(wf_messages).content
            llm_raised == use_llm /\ llm = "raise"
            content ==
                IF ~retrieval.ok
                THEN "I encountered an error while processing your query: retriever"
                ELSE IF use_llm /\ llm # "raise" THEN llm
                ELSE generate_simple_response(query, retrieval.docs)
        IN /\ wf_messages' = Append(wf_messages, AIMessage(content, FALSE))
           /\ wf_docs' = IF retrieval.ok THEN retrieval.docs ELSE Unbound
           /\ wf_raised' = wf_raised \cup retrieval.raised
                 \cup (IF ~retrieval.ok THEN {"process_query"} ELSE {})
                 \cup (IF retrieval.ok /\ llm_raised THEN {"chat_model.invoke"} ELSE {})
    /\ wf_steps' = wf_steps + 1
    /\ wf_node' = workflow_edge("process_query")
    /\ UNCHANGED <<wpc, wf_query, use_llm, wf_result, wf_response>>
    /\ UNCHANGED <<searchVars, chunkerVars, storeVars, ingestVars, clearVars,
                   concVars>>

\* invoke after workflow.invoke returned: the answer is the content of the
\* last message.  process_query catches every exception, so workflow.invoke
\* does not raise.
InvokeReturn ==
    /\ wpc = "workflow"
    /\ wf_node = END
    /\ wf_result' = [answer |-> Last(wf_messages).content,
                     messages |-> [k \in 1..Len(wf_messages) |-> wf_messages[k].content],
                     status |-> "success"]
    /\ wpc' = "invoked"
    /\ UNCHANGED <<wf_query, use_llm, wf_messages, wf_node, wf_steps, wf_raised,
                   wf_docs,
                   wf_response>>
    /\ UNCHANGED <<searchVars, chunkerVars, storeVars, ingestVars, clearVars,
                   concVars>>

\* search_documents after invoke returned.
SearchDocumentsRespond ==
    /\ wpc = "invoked"
    /\ wf_response' = [kind |-> "ok", answer |-> wf_result.answer,
                       status |-> wf_result.status,
                       storage_mode |-> IF db2_available THEN "DB2" ELSE "Simple"]
    /\ wpc' = "responded"
    /\ UNCHANGED <<wf_query, use_llm, wf_messages, wf_node, wf_steps, wf_raised,
                   wf_docs,
                   wf_result>>
    /\ UNCHANGED <<searchVars, chunkerVars, storeVars, ingestVars, clearVars,
                   concVars>>

WorkflowNext ==
    \/ SearchDocuments
    \/ ProcessQuery
    \/ InvokeReturn
    \/ SearchDocumentsRespond

\* A /search request arrives at the combined application; the workflow
\* exists if a document was ingested before.
WorkflowInit ==
    /\ wpc = "request"
    /\ wf_query \in Questions
    /\ use_llm \in BOOLEAN
    /\ wf_messages = <<>>
    /\ wf_node = START
    /\ wf_steps = 0
    /\ wf_raised = {}
    /\ wf_docs = Unbound
    /\ wf_result = NoCall
    /\ wf_response = NoResponse
    /\ spc = "ready"
    /\ connection \in {"None", "ibm_db"}
    /\ db2_available = (connection # "None")
    /\ vectorstore = "None"
    /\ table_rows = <<>>
    /\ simple_storage = <<>>
    /\ agentic_workflow \in {"None"} \cup Workflows
    /\ data = <<>>
    /\ added = {}
    /\ call = NoCall

InitWorkflow ==
    WorkflowInit /\ SearchIdle /\ ChunkerIdle /\ IngestIdle /\ ClearIdle
        /\ ConcIdle

WorkflowSpec == InitWorkflow /\ [][WorkflowNext]_vars

\* C23: whatever the retriever and the chat model do, invoke returns a
\* result with an answer string and a status of success or error, after
\* exactly one process_query step: no second step is ever taken and a
\* request inside the workflow can always go on.
C23_InvokeAlwaysReturns ==
    /\ wf_steps <= 1
    /\ wpc = "workflow" => ENABLED WorkflowNext
    /\ wf_result # NoCall =>
          /\ wf_result.answer \in STRING
          /\ wf_result.status \in {"success", "error"}
          /\ wf_steps = 1

\* invoke returned although both calls of the retriever raised.
C23_Witness ==
    /\ wf_result # NoCall
    /\ "retriever_tool.invoke(str)" \in wf_raised
    /\ wf_steps = 1

\* C30: invoke returns status success only if query processing did not fail;
\* when it failed, the status is error and the result carries the cause.
C30_SuccessOnlyWithoutFailure ==
    wf_result # NoCall =>
        /\ wf_result.status = "success" => "process_query" \notin wf_raised
        /\ "process_query" \in wf_raised =>
              (wf_result.status = "error" /\ "error" \in DOMAIN wf_result)

\* Answers that state that nothing was found or known.
NoInformationAnswers ==
    {"I couldn't find specific information about '" \o q
        \o "' in the knowledge base." : q \in Questions}
    \cup {"I don't know."}

\* C40: when the retriever returns no documents (the empty result or the
\* text "No relevant documents found."), the answer of the workflow states
\* that no information was found, on the chat-model path and on the template
\* path.
C40_NoDocumentsNoAnswer ==
    wf_docs \in {"", "No relevant documents found."}
        => Last(wf_messages).content \in NoInformationAnswers

(***************************************************************************)
(* Combined application: /ingest and /search requests against one process. *)
(* The global agentic_workflow is None until an /ingest creates it.        *)
(***************************************************************************)

\* A /search request arrives at the running application.
SearchArrive ==
    /\ spc = "ready"
    /\ wpc \in {"idle", "responded"}
    /\ wpc' = "request"
    /\ wf_query' \in Questions
    /\ wf_messages' = <<>>
    /\ wf_node' = START
    /\ wf_steps' = 0
    /\ wf_raised' = {}
    /\ wf_docs' = Unbound
    /\ wf_result' = NoCall
    /\ wf_response' = NoResponse
    /\ UNCHANGED use_llm
    /\ UNCHANGED <<searchVars, chunkerVars, storeVars, ingestVars, clearVars,
                   concVars>>

\* ingest_url of a worker thread up to its line 76: the download, which may
\* fail and answer 500, add_documents([doc]) of a page that makes one chunk,
\* and the test whether the global agentic_workflow is None.
AppIngestStore(t) ==
    /\ spc = "ready"
    /\ app_pc[t] = "idle"
    /\ \E download_ok \in BOOLEAN :
        IF ~download_ok
        THEN /\ call' = [op |-> "ingest_url", path |-> "not_called",
                         status |-> 500]
             /\ UNCHANGED <<vectorstore, table_rows, simple_storage, added,
                            app_pc, app_saw_none>>
        ELSE \E text_chunks \in [1..1 -> Texts], write_ok \in BOOLEAN :
             LET cs == MakeChunks(DocId, text_chunks)
                 use_db2 == db2_available /\ connection # "None"
                 path == IF use_db2 THEN (IF write_ok THEN "db2" ELSE "db2_failed")
                         ELSE "no_db2"
             IN /\ IF path = "db2"
                   THEN /\ Len(table_rows) + Len(cs) <= MaxStored
                        /\ table_rows' = table_rows \o text_chunks
                        /\ vectorstore' = "DB2VS"
                        /\ UNCHANGED simple_storage
                   ELSE /\ Len(simple_storage) + Len(cs) <= MaxStored
                        /\ simple_storage' = fallback_to_simple_storage(simple_storage, cs)
                        /\ UNCHANGED <<table_rows, vectorstore>>
                /\ added' = added \cup {"GraniteDB2Store"}
                /\ UNCHANGED call
                /\ app_saw_none' = [app_saw_none EXCEPT
                                       ![t] = (agentic_workflow = "None")]
                /\ app_pc' = [app_pc EXCEPT ![t] = "stored"]
    /\ UNCHANGED <<spc, connection, db2_available, agentic_workflow, data,
                   app_ingested>>
    /\ UNCHANGED <<pipe_pc, pipe_doc, pipe_response, req_pc, req_table_exists,
                   req_write, req_response>>
    /\ UNCHANGED <<searchVars, chunkerVars, ingestVars, clearVars, workflowVars,
                   threadVars>>

\* ingest_url lines 77-91 of a worker thread: when its test found no
\* workflow, it creates one and assigns the global; then it answers.
AppIngestInitialize(t) ==
    /\ app_pc[t] = "stored"
    /\ agentic_workflow' =
          IF app_saw_none[t]
          THEN create_agentic_workflow(get_retriever_tool(vectorstore), t)
          ELSE agentic_workflow
    /\ call' = [op |-> "ingest_url", status |-> 200,
                storage_mode |-> IF db2_available THEN "DB2" ELSE "Simple",
                agentic_workflow_ready |-> agentic_workflow' # "None"]
    /\ app_ingested' = TRUE
    /\ app_pc' = [app_pc EXCEPT ![t] = "idle"]
    /\ UNCHANGED app_saw_none
    /\ UNCHANGED <<spc, connection, db2_available, vectorstore, table_rows,
                   simple_storage, data, added>>
    /\ UNCHANGED <<pipe_pc, pipe_doc, pipe_response, req_pc, req_table_exists,
                   req_write, req_response>>
    /\ UNCHANGED <<searchVars, chunkerVars, ingestVars, clearVars, workflowVars,
                   threadVars>>

CombinedNext ==
    \/ Construct
    \/ InitializeConnection
    \/ \E t \in Threads : AppIngestStore(t)
    \/ \E t \in Threads : AppIngestInitialize(t)
    \/ SearchArrive
    \/ SearchDocuments
    \/ ProcessQuery
    \/ InvokeReturn
    \/ SearchDocumentsRespond

\* The application starts: the store is about to be constructed, no
\* workflow exists, no request has arrived.  Whether a workflow will get a
\* chat model depends on the environment and is fixed from the start.
CombinedInit ==
    /\ StoreInit
    /\ wpc = "idle"
    /\ wf_query = ""
    /\ use_llm \in BOOLEAN
    /\ wf_messages = <<>>
    /\ wf_node = START
    /\ wf_steps = 0
    /\ wf_raised = {}
    /\ wf_docs = Unbound
    /\ wf_result = NoCall
    /\ wf_response = NoResponse

InitCombined ==
    CombinedInit /\ SearchIdle /\ ChunkerIdle /\ IngestIdle /\ ClearIdle
        /\ ConcIdle

CombinedSpec == InitCombined /\ [][CombinedNext]_vars

\* C39: /search answers not_ready, without invoking the workflow, exactly
\* while no /ingest has succeeded; the first successful ingest creates the
\* workflow, which is then never reset or replaced, and every later search
\* invokes it.
C39_NotReadyUntilFirstIngest ==
    /\ [](app_ingested <=> agentic_workflow # "None")
    /\ [][(wpc = "request" /\ wpc' # "request")
            => /\ ~app_ingested
                    => (wpc' = "responded" /\ wf_steps' = 0
                            /\ wf_response'.status = "not_ready")
               /\ app_ingested => wpc' = "workflow"]_vars
    /\ [][agentic_workflow # "None"
            => agentic_workflow' = agentic_workflow]_vars

(***************************************************************************)
(* A search running concurrently with an ingestion into the same in-memory *)
(* store.  The handlers of the combined application are plain functions,   *)
(* which the server runs in worker threads.  list.extend is taken one item *)
(* at a time, which covers every interleaving a build can produce.         *)
(***************************************************************************)

ConcStores == {"GraniteDB2Store", "SimpleDB"}

\* The list the two threads share.
SharedList == IF conc_store = "SimpleDB" THEN data ELSE simple_storage

\* A writer that puts the record into the list before its fields are filled.
stored_id_only(record) == [id |-> record.id]

\* add_documents / add_document: the record is complete when it enters the
\* list.
stored_record(record) == record

\* The ingesting thread builds its records: add_documents the chunk dicts of
\* a document, add_document one doc dict.
WriterBuild ==
    /\ writer_pc = "ready"
    /\ \E text_chunks \in UNION {[1..n -> Texts] : n \in 1..MaxChunksPerDoc} :
        /\ conc_store = "SimpleDB" => Len(text_chunks) = 1
        /\ Len(SharedList) + Len(text_chunks) <= MaxStored
        /\ pending' = IF conc_store = "SimpleDB"
                      THEN <<[id |-> DocId, content |-> text_chunks[1],
                              source |-> Source]>>
                      ELSE MakeChunks(DocId, text_chunks)
    /\ writer_pc' = "built"
    /\ UNCHANGED <<conc_store, reader_pc, reader_n, observed>>
    /\ UNCHANGED <<searchVars, chunkerVars, storeVars, ingestVars, clearVars,
                   workflowVars, pipelineVars>>

\* The ingesting thread puts the next record into the shared list:
\* simple_storage.extend(chunks) / data.append(doc).
WriterStore ==
    /\ writer_pc = "built"
    /\ IF conc_store = "SimpleDB"
       THEN /\ data' = Append(data, stored_record(Head(pending)))
            /\ UNCHANGED simple_storage
       ELSE /\ simple_storage' = Append(simple_storage, stored_record(Head(pending)))
            /\ UNCHANGED data
    /\ pending' = Tail(pending)
    /\ writer_pc' = IF Tail(pending) = <<>> THEN "ready" ELSE "built"
    /\ added' = added \cup {conc_store}
    /\ UNCHANGED <<spc, connection, db2_available, vectorstore, table_rows,
                   agentic_workflow, call>>
    /\ UNCHANGED <<conc_store, reader_pc, reader_n, observed>>
    /\ UNCHANGED <<searchVars, chunkerVars, ingestVars, clearVars, workflowVars,
                   pipelineVars>>

\* The searching thread enters the loop over the shared list.
ReaderStart ==
    /\ reader_pc \in {"ready", "returned"}
    /\ reader_pc' = "loop"
    /\ reader_n' = 0
    /\ observed' = <<>>
    /\ UNCHANGED <<conc_store, writer_pc, pending>>
    /\ UNCHANGED <<searchVars, chunkerVars, storeVars, ingestVars, clearVars,
                   workflowVars, pipelineVars>>

\* One iteration of the search loop: the list iterator yields the next
\* element.
ReaderNext ==
    /\ reader_pc = "loop"
    /\ reader_n < Len(SharedList)
    /\ observed' = Append(observed, SharedList[reader_n + 1])
    /\ reader_n' = reader_n + 1
    /\ UNCHANGED <<conc_store, writer_pc, pending, reader_pc>>
    /\ UNCHANGED <<searchVars, chunkerVars, storeVars, ingestVars, clearVars,
                   workflowVars, pipelineVars>>

\* The list iterator is exhausted: the search returns.
ReaderReturn ==
    /\ reader_pc = "loop"
    /\ reader_n >= Len(SharedList)
    /\ reader_pc' = "returned"
    /\ UNCHANGED <<conc_store, writer_pc, pending, reader_n, observed>>
    /\ UNCHANGED <<searchVars, chunkerVars, storeVars, ingestVars, clearVars,
                   workflowVars, pipelineVars>>

ConcNext ==
    \/ WriterBuild
    \/ WriterStore
    \/ ReaderStart
    \/ ReaderNext
    \/ ReaderReturn

\* Two requests are about to run on a store without a DB2 vector store.
ConcInit ==
    /\ conc_store \in ConcStores
    /\ writer_pc = "ready"
    /\ pending = <<>>
    /\ reader_pc = "ready"
    /\ reader_n = 0
    /\ observed = <<>>
    /\ spc = "ready"
    /\ connection = "None"
    /\ db2_available = FALSE
    /\ vectorstore = "None"
    /\ table_rows = <<>>
    /\ simple_storage = <<>>
    /\ agentic_workflow = "None"
    /\ data = <<>>
    /\ added = {}
    /\ call = NoCall

InitConc ==
    ConcInit /\ SearchIdle /\ ChunkerIdle /\ IngestIdle /\ ClearIdle
        /\ WorkflowIdle /\ PipeIdle /\ RaceIdle /\ AppIdle

ConcSpec == InitConc /\ [][ConcNext]_vars

\* C24: a search that runs while an ingestion writes into the same store
\* sees every chunk either not at all or with all its fields: what it has
\* read are the first entries of the list, each with id, content and source.
C24_NoPartialChunkObserved ==
    /\ observed = SubSeq(SharedList, 1, Len(observed))
    /\ \A k \in 1..Len(observed) :
          /\ {"id", "content", "source"} \subseteq DOMAIN observed[k]
          /\ observed[k].content \in Texts
          /\ observed[k].source = Source

\* The search has read a chunk while the ingestion is between two of its
\* writes.
C24_Witness ==
    /\ reader_pc = "loop"
    /\ observed # <<>>
    /\ writer_pc = "built"
    /\ Len(pending) = 1
    /\ conc_store = "GraniteDB2Store"
    /\ Len(observed) = Len(SharedList)

(***************************************************************************)
(* Data pipeline: POST /ingest of deployment/data_pipeline/app.py.  The    *)
(* handler is a plain def, which the server runs on worker threads; all of *)
(* them share one SimpleDB, and a thread can be preempted between reading  *)
(* len(db.data) and appending to db.data.                                  *)
(***************************************************************************)

\* f"doc_{len(db.data) + 1}"
pipeline_doc_id(docs) == "doc_" \o ToString(Len(docs) + 1)

\* SimpleDB.add_document
add_document(docs, doc_id, content, source) ==
    Append(docs, [id |-> doc_id, content |-> content, source |-> source])

\* ingest_url: requests.get or raise_for_status raises; the except answers 500.
PipeIngestFails(t) ==
    /\ pipe_pc[t] = "request"
    /\ pipe_pc' = [pipe_pc EXCEPT ![t] = "done"]
    /\ pipe_response' = [pipe_response EXCEPT
                            ![t] = ErrorResponse(500, "Ingestion failed")]
    /\ UNCHANGED <<pipe_doc, req_pc, req_table_exists, req_write, req_response>>
    /\ UNCHANGED <<searchVars, chunkerVars, storeVars, ingestVars, clearVars,
                   workflowVars, threadVars>>
    /\ UNCHANGED appVars

\* ingest_url up to its line 78: the page is downloaded and parsed, and
\* doc_id is made from the number of documents stored at that moment.
PipeIngestName(t) ==
    /\ pipe_pc[t] = "request"
    /\ \E content \in Texts :
          pipe_doc' = [pipe_doc EXCEPT
                          ![t] = [content |-> content,
                                  doc_id |-> pipeline_doc_id(data)]]
    /\ pipe_pc' = [pipe_pc EXCEPT ![t] = "named"]
    /\ UNCHANGED <<pipe_response, req_pc, req_table_exists, req_write,
                   req_response>>
    /\ UNCHANGED <<searchVars, chunkerVars, storeVars, ingestVars, clearVars,
                   workflowVars, threadVars>>
    /\ UNCHANGED appVars

\* ingest_url line 79: db.add_document(doc_id, content, request.url)
PipeIngestAdd(t) ==
    /\ pipe_pc[t] = "named"
    /\ data' = add_document(data, pipe_doc[t].doc_id, pipe_doc[t].content, Source)
    /\ added' = added \cup {"SimpleDB"}
    /\ pipe_pc' = [pipe_pc EXCEPT ![t] = "added"]
    /\ UNCHANGED <<pipe_doc, pipe_response, req_pc, req_table_exists, req_write,
                   req_response>>
    /\ UNCHANGED <<spc, connection, db2_available, vectorstore, table_rows,
                   simple_storage, agentic_workflow, call>>
    /\ UNCHANGED <<searchVars, chunkerVars, ingestVars, clearVars, workflowVars,
                   threadVars>>
    /\ UNCHANGED appVars

\* ingest_url lines 81-88: the response, with the number of documents stored
\* when it is built.
PipeIngestRespond(t) ==
    /\ pipe_pc[t] = "added"
    /\ pipe_response' = [pipe_response EXCEPT
                            ![t] = [kind |-> "ok", success |-> TRUE,
                                    doc_id |-> pipe_doc[t].doc_id,
                                    total_documents |-> Len(data)]]
    /\ pipe_pc' = [pipe_pc EXCEPT ![t] = "done"]
    /\ UNCHANGED <<pipe_doc, req_pc, req_table_exists, req_write, req_response>>
    /\ UNCHANGED <<searchVars, chunkerVars, storeVars, ingestVars, clearVars,
                   workflowVars, threadVars>>
    /\ UNCHANGED appVars

PipelineNext ==
    \/ \E t \in Threads : PipeIngestFails(t)
    \/ \E t \in Threads : PipeIngestName(t)
    \/ \E t \in Threads : PipeIngestAdd(t)
    \/ \E t \in Threads : PipeIngestRespond(t)

\* The data pipeline has started with an empty SimpleDB and every worker
\* thread holds an /ingest request.
PipelineInit ==
    /\ pipe_pc = [t \in Threads |-> "request"]
    /\ pipe_doc = [t \in Threads |-> NoCall]
    /\ pipe_response = [t \in Threads |-> NoResponse]

InitPipeline ==
    PipelineInit /\ SearchIdle /\ ChunkerIdle /\ StoreIdle /\ IngestIdle
        /\ ClearIdle /\ WorkflowIdle /\ ThreadIdle /\ RaceIdle /\ AppIdle

PipelineSpec == InitPipeline /\ [][PipelineNext]_vars

\* C34: after any interleaving of concurrent /ingest requests of the data
\* pipeline the documents of the shared store have pairwise distinct ids, and
\* the n-th stored document has the id doc_n.
C34_DocumentIdsDistinctAndNumbered ==
    /\ \A m, n \in 1..Len(data) : m # n => data[m].id # data[n].id
    /\ \A n \in 1..Len(data) : data[n].id = "doc_" \o ToString(n)

(***************************************************************************)
(* Concurrent /ingest requests of the ingestion service for one table      *)
(* (document-ingestion-api/ingestion_api.py; deployment/ingestion_api.py   *)
(* has the same steps).  The handler is an async def without an await, so  *)
(* one server process runs its requests one after the other; requests that *)
(* run at the same time are served by different server processes, which    *)
(* share the DB2 database.  A step is one call on the database.            *)
(***************************************************************************)

\* ingest_document: the branch on table_exists
ingest_path(exists) == IF exists THEN "add_texts" ELSE "from_texts"

\* ingest_document up to get_db_connection: fetch, extract and chunk, any of
\* which answers 400, then the connection, which answers 500 when it fails.
ReqConnect(r) ==
    /\ req_pc[r] = "request"
    /\ \E outcome \in {"no_content", "connection_failed", "ok"} :
        CASE outcome = "no_content" ->
                /\ req_response' = [req_response EXCEPT
                       ![r] = ErrorResponse(400, "Failed to fetch content from URL")]
                /\ req_pc' = [req_pc EXCEPT ![r] = "done"]
                /\ UNCHANGED connections
          [] outcome = "connection_failed" ->
                /\ req_response' = [req_response EXCEPT
                       ![r] = ErrorResponse(500, "Database connection failed")]
                /\ req_pc' = [req_pc EXCEPT ![r] = "done"]
                /\ UNCHANGED connections
          [] outcome = "ok" ->
                /\ connections' = connections + 1
                /\ req_pc' = [req_pc EXCEPT ![r] = "connected"]
                /\ UNCHANGED req_response
    /\ UNCHANGED <<req_table_exists, req_write, pipe_pc, pipe_doc, pipe_response>>
    /\ UNCHANGED <<tables, clear_pc, clear_request, clear_response>>
    /\ UNCHANGED <<searchVars, chunkerVars, storeVars, ingestVars, workflowVars,
                   threadVars>>
    /\ UNCHANGED appVars

\* get_embeddings, which raises when the model file is missing, and then
\* table_exists(connection, request.table_name).
ReqCheckTable(r) ==
    /\ req_pc[r] = "connected"
    /\ \E model_found \in BOOLEAN :
        IF model_found
        THEN /\ req_table_exists' = [req_table_exists EXCEPT
                                        ![r] = (ingest_table = "present")]
             /\ req_pc' = [req_pc EXCEPT ![r] = "checked"]
             /\ UNCHANGED req_response
        ELSE /\ req_response' = [req_response EXCEPT
                                    ![r] = ErrorResponse(500, "Ingestion failed")]
             /\ req_pc' = [req_pc EXCEPT ![r] = "done"]
             /\ UNCHANGED req_table_exists
    /\ UNCHANGED <<req_write, pipe_pc, pipe_doc, pipe_response>>
    /\ UNCHANGED <<searchVars, chunkerVars, storeVars, ingestVars, clearVars,
                   workflowVars, threadVars>>
    /\ UNCHANGED appVars

\* The write: add_texts when table_exists returned true, from_texts
\* otherwise.  On success the connection is closed and the handler answers;
\* when the write raises, the except answers 500.
ReqWrite(r) ==
    /\ req_pc[r] = "checked"
    /\ \E write_ok \in BOOLEAN :
        LET path == ingest_path(req_table_exists[r])
        IN /\ req_write' = [req_write EXCEPT
                               ![r] = [path |-> path, table |-> ingest_table,
                                       ok |-> write_ok]]
           /\ IF write_ok
              THEN /\ ingest_table' = "present"
                   /\ connections' = connections - 1
                   /\ req_response' = [req_response EXCEPT
                          ![r] = IngestResponse(IF path = "add_texts"
                                                THEN "Added chunks to existing table"
                                                ELSE "Created table", 1)]
              ELSE /\ ingest_table' \in
                          (IF path = "from_texts" THEN {ingest_table, "present"}
                           ELSE {ingest_table})
                   /\ req_response' = [req_response EXCEPT
                          ![r] = ErrorResponse(500, "Ingestion failed")]
                   /\ UNCHANGED connections
    /\ req_pc' = [req_pc EXCEPT ![r] = "done"]
    /\ UNCHANGED <<req_table_exists, pipe_pc, pipe_doc, pipe_response>>
    /\ UNCHANGED <<ipc, url_ok, fetched, stored, ingest_response>>
    /\ UNCHANGED <<tables, clear_pc, clear_request, clear_response>>
    /\ UNCHANGED <<searchVars, chunkerVars, storeVars, workflowVars, threadVars>>
    /\ UNCHANGED appVars

RaceNext ==
    \/ \E r \in Requests : ReqConnect(r)
    \/ \E r \in Requests : ReqCheckTable(r)
    \/ \E r \in Requests : ReqWrite(r)

\* The requests have arrived; the table they name exists or does not.
RaceInit ==
    /\ req_pc = [r \in Requests |-> "request"]
    /\ req_table_exists = [r \in Requests |-> FALSE]
    /\ req_write = [r \in Requests |-> NoWrite]
    /\ req_response = [r \in Requests |-> NoResponse]
    /\ ipc = "idle"
    /\ url_ok = TRUE
    /\ fetched = FALSE
    /\ ingest_table \in {"absent", "present"}
    /\ stored = 0
    /\ ingest_response = NoResponse

InitRace ==
    RaceInit /\ SearchIdle /\ ChunkerIdle /\ StoreIdle /\ ClearIdle
        /\ WorkflowIdle /\ ThreadIdle /\ PipeIdle /\ AppIdle

RaceSpec == InitRace /\ [][RaceNext]_vars

\* C35: of two ingest requests for the same table that run concurrently at
\* most one takes the creation path from_texts, and a request takes it only
\* if the table does not exist at the moment it writes.
C35_AtMostOneCreatesTable ==
    /\ Cardinality({r \in Requests : req_write[r].path = "from_texts"}) <= 1
    /\ \A r \in Requests :
          req_write[r].path = "from_texts" => req_write[r].table = "absent"

\* C36: every database connection opened while serving a request is closed
\* by the time the request completes, on the success path and on every
\* failure path: when no request is between its connect and its response, no
\* connection is open.
C36_ConnectionsClosedOnCompletion ==
    (\A r \in Requests : req_pc[r] \in {"request", "done"}) => connections = 0

====
